---- MODULE Spec2Model ----
(***************************************************************************)
(* Model of scripts/estimate.py: the statistics extractor, the yosys()     *)
(* tool invoker and the process_files() parallel driver.                   *)
(***************************************************************************)
EXTENDS Integers, Sequences, FiniteSets, TLC

(***************************************************************************)
(* Bounds                                                                  *)
(***************************************************************************)
\* longest captured output text, in lines
MaxLines == 4
\* longest batch handed to process_files
MaxFiles == 2
\* the most numeric fields in the tail of a file name
MaxFields == 2
\* longest source text handed to preprocess_sv_file, in lines
MaxSrcLines == 3
\* longest text handed to the guarded-block pass, in lines
MaxGuardLines == 5
\* longest text handed to the hoisting scanner, in lines
MaxHoistLines == 4
\* longest text the two scanners are run on side by side, in lines
MaxScanLines == 3
\* longest text handed to the verification-section pass, in lines
MaxSectionLines == 5
\* longest text handed to a top finder, in lines
MaxTopLines == 3

(***************************************************************************)
(* Program constants                                                       *)
(***************************************************************************)
\* worker processes of the pool (multiprocessing.cpu_count() on the host)
MAX_WORKERS == 2

(***************************************************************************)
(* Captured output text.  A text is the sequence of its lines (the result  *)
(* of split('\n')); a line is a sequence of tokens.  A token is a maximal  *)
(* run of whitespace ("ws"), a maximal run of digits ("num", with its      *)
(* digits), one of the literal labels the extractor looks for, or other    *)
(* text ("x") that holds no digit, no whitespace and none of the labels.   *)
(***************************************************************************)
Tok(k) == [k |-> k, d |-> <<>>]
Num(d) == [k |-> "num", d |-> d]
WS == Tok("ws")
NWB == Tok("Number of wire bits:")
NC == Tok("Number of cells:")
NO == Tok("Number of wires:")
WB == Tok("wire bits")
CE == Tok("cells")
PS == Tok("Printing statistics.")
X == Tok("x")

\* the output lines the texts are built from
Lines ==
  { <<>>,                                        \* ""
    <<WS, NWB, WS, Num(<<3, 9, 7>>)>>,           \* "   Number of wire bits: 397"
    <<WS, Num(<<7>>), WS, WB>>,                  \* "   7 wire bits"
    <<NC, WS, Num(<<5, 2>>)>>,                   \* "Number of cells: 52"
    <<WS, Num(<<4, 8>>), WS, CE>>,               \* "   48 cells"
    <<Num(<<4, 8>>), WS, CE>>,                   \* "48 cells"
    <<Num(<<3>>), X, WS, PS>>,                   \* "3. Printing statistics."
    <<NWB, WS, Num(<<1>>), WS, NC, WS, Num(<<2>>)>>, \* both labels on one line
    <<WS, NC>>,                                  \* "   Number of cells:" (cut off)
    <<Num(<<1>>), WS, NC, WS, Num(<<2>>)>>,      \* "1 Number of cells: 2"
    <<WS, NO, WS, Num(<<5>>), WS, WB>>,          \* "   Number of wires: 5 wire bits"
    <<WS, Num(<<2>>), WS, CE, WS, X>> }          \* "   2 cells x"

RECURSIVE SeqsUpTo(_, _)
SeqsUpTo(S, n) ==
  IF n = 0 THEN {<<>>}
  ELSE LET shorter == SeqsUpTo(S, n - 1)
       IN  shorter \cup {Append(s, l) : s \in shorter, l \in S}

\* the texts of up to n lines; str.split('\n') never returns an empty list:
\* the empty text is one empty line
Texts(n) == SeqsUpTo(Lines, n) \ {<<>>}

(***************************************************************************)
(* String and regular-expression helpers                                   *)
(***************************************************************************)
\* int(s) for a run of decimal digits
RECURSIVE int(_)
int(d) ==
  IF d = <<>> THEN 0
  ELSE 10 * int(SubSeq(d, 1, Len(d) - 1)) + d[Len(d)]

\* label in line
Contains(line, k) == \E i \in DOMAIN line : line[i].k = k

\* "Number of" in line
ContainsNumberOf(line) ==
  \/ Contains(line, "Number of wire bits:")
  \/ Contains(line, "Number of cells:")
  \/ Contains(line, "Number of wires:")

Min(S) == CHOOSE m \in S : \A n \in S : m <= n
Max(S) == CHOOSE m \in S : \A n \in S : m >= n

\* re.search(r'\d+', line): position of the leftmost run of digits, 0 for None
SearchDigits(line) ==
  LET hits == {i \in DOMAIN line : line[i].k = "num"}
  IN  IF hits = {} THEN 0 ELSE Min(hits)

\* re.search(r'(\d+)\s+<word>', line): position of the digits of the leftmost
\* match, 0 for None
SearchNumWord(line, word) ==
  LET hits == {i \in DOMAIN line :
                 /\ i + 2 <= Len(line)
                 /\ line[i].k = "num"
                 /\ line[i + 1].k = "ws"
                 /\ line[i + 2].k = word}
  IN  IF hits = {} THEN 0 ELSE Min(hits)

\* re.search(r'^\s+\d+\s+cells\s*$', line)
SearchCellsLine(line) ==
  /\ Len(line) \in {4, 5}
  /\ line[1].k = "ws"
  /\ line[2].k = "num"
  /\ line[3].k = "ws"
  /\ line[4].k = "cells"
  /\ Len(line) = 5 => line[5].k = "ws"

\* re.match(r'\s*Number of cells:\s*(\d+)', line): position of the digits, 0
\* for None
MatchNumberOfCells(line) ==
  LET a == IF Len(line) >= 1 /\ line[1].k = "ws" THEN 2 ELSE 1
      b == IF Len(line) >= a + 1 /\ line[a + 1].k = "ws" THEN a + 2 ELSE a + 1
  IN  IF /\ Len(line) >= b
         /\ line[a].k = "Number of cells:"
         /\ line[b].k = "num"
      THEN b ELSE 0

\* a line str.strip() removes whole: empty or whitespace only
Blank(line) == \A i \in DOMAIN line : line[i].k = "ws"

\* text.strip().split('\n')
StripSplit(text) ==
  LET solid == {i \in DOMAIN text : ~Blank(text[i])}
  IN  IF solid = {} THEN << <<>> >>
      ELSE LET lo == Min(solid)
               hi == Max(solid)
               lstrip(l) == IF l[1].k = "ws" THEN Tail(l) ELSE l
               rstrip(l) == IF l[Len(l)].k = "ws"
                            THEN SubSeq(l, 1, Len(l) - 1) ELSE l
           IN  [i \in 1..(hi - lo + 1) |->
                  LET l == text[lo + i - 1]
                      l1 == IF i = 1 THEN lstrip(l) ELSE l
                  IN  IF i = hi - lo + 1 THEN rstrip(l1) ELSE l1]

(***************************************************************************)
(* Statistics extraction                                                   *)
(***************************************************************************)
\* variant of sum_cell_counts: counts from the first marker on
sum_cell_counts_first_marker(text) ==
  LET lines == StripSplit(text)
      marks == {i \in DOMAIN lines : Contains(lines[i], "Printing statistics.")}
      first_stats_index == IF marks = {} THEN 0 ELSE Min(marks)
      count(line) == IF MatchNumberOfCells(line) = 0 THEN 0
                     ELSE int(line[MatchNumberOfCells(line)].d)
      total_cells[i \in 0..Len(lines)] ==
        IF i < first_stats_index THEN 0
        ELSE total_cells[i - 1] + count(lines[i])
  IN  IF first_stats_index = 0 THEN 0 ELSE total_cells[Len(lines)]

\* sum_cell_counts(text)
sum_cell_counts(text) ==
  LET lines == StripSplit(text)
      marks == {i \in DOMAIN lines : Contains(lines[i], "Printing statistics.")}
      last_stats_index == IF marks = {} THEN 0 ELSE Max(marks)
      count(line) == IF MatchNumberOfCells(line) = 0 THEN 0
                     ELSE int(line[MatchNumberOfCells(line)].d)
      total_cells[i \in 0..Len(lines)] ==
        IF i < last_stats_index THEN 0
        ELSE total_cells[i - 1] + count(lines[i])
  IN  IF last_stats_index = 0 THEN 0 ELSE total_cells[Len(lines)]

\* int(re.search(r'\d+', line).group()): AttributeError when nothing matches
IntOfFirstDigits(line) ==
  IF SearchDigits(line) = 0
  THEN [error |-> TRUE, value |-> 0]
  ELSE [error |-> FALSE, value |-> int(line[SearchDigits(line)].d)]

\* variant of TryAssign: the exception is not caught
TryAssignUncaught(st, metric, expr) ==
  IF expr.error THEN [st EXCEPT !.raised = TRUE]
  ELSE [st EXCEPT ![metric] = expr.value]

\* variant of TryAssign: a metric that is already set is left alone
TryAssignOnce(st, metric, expr) ==
  IF expr.error \/ st[metric] # 0 THEN st
  ELSE [st EXCEPT ![metric] = expr.value]

\* try: <metric> = <expr>  except (AttributeError, ValueError): pass
TryAssign(st, metric, expr) ==
  IF expr.error THEN st ELSE [st EXCEPT ![metric] = expr.value]

\* variant of ParseLine: only the "Number of ...:" formats are known
ParseLineOldFormats(st, line) ==
  IF Contains(line, "Number of wire bits:")
  THEN TryAssign(st, "wire_bits", IntOfFirstDigits(line))
  ELSE IF Contains(line, "Number of cells:")
  THEN TryAssign(st, "cells", IntOfFirstDigits(line))
  ELSE st

\* one iteration of the loop over p.split('\n') in yosys()
ParseLine(st, line) ==
  IF Contains(line, "Number of wire bits:")
  THEN TryAssign(st, "wire_bits", IntOfFirstDigits(line))
  ELSE IF SearchNumWord(line, "wire bits") # 0 /\ ~ContainsNumberOf(line)
  THEN [st EXCEPT !.wire_bits = int(line[SearchNumWord(line, "wire bits")].d)]
  ELSE IF Contains(line, "Number of cells:")
  THEN TryAssign(st, "cells", IntOfFirstDigits(line))
  ELSE IF SearchCellsLine(line)
  THEN [st EXCEPT !.cells = int(line[SearchNumWord(line, "cells")].d)]
  ELSE st

\* the parse section of yosys(): the state after the first n lines of p
RECURSIVE ParseLines(_, _)
ParseLines(p, n) ==
  IF n = 0 THEN [wire_bits |-> 0, cells |-> 0, raised |-> FALSE]
  ELSE LET st == ParseLines(p, n - 1)
       IN  IF st.raised THEN st ELSE ParseLine(st, p[n])

\* "Parse Yosys output" in yosys(): vhdl is fn.endswith('.vhdl')
Parse(p, vhdl) ==
  IF vhdl
  THEN [wire_bits |-> 0, cells |-> sum_cell_counts(p), raised |-> FALSE]
  ELSE ParseLines(p, Len(p))

(***************************************************************************)
(* Input files, temporary files, tool results                              *)
(***************************************************************************)
\* the HDL sources a batch is drawn from: a SystemVerilog file and a VHDL file
Files ==
  { [dir |-> "generated", base |-> "FPADD", ext |-> ".sv"],
    [dir |-> "", base |-> "FPDiv", ext |-> ".vhdl"] }

\* fn.endswith('.vhdl')
IsVhdl(fn) == fn.ext = ".vhdl"

\* the value None
None == [none |-> TRUE]

\* variant of TempFile: the name does not carry the process id
TempFileShared(pid) == [tmp |-> 0, name |-> <<".ys">>]

\* temp_file = f"tmp_{os.getpid()}.ys"
TempFile(pid) == [tmp |-> pid, name |-> <<".ys">>]

\* preprocessed_file = f"tmp_{os.getpid()}_{os.path.basename(fn)}"
PreprocessedFile(pid, fn) == [tmp |-> pid, name |-> <<"_", fn.base, fn.ext>>]

\* captured standard output of the tool
NoOutput == << <<>> >>
StatOutput ==
  << <<PS>>,                        \* "Printing statistics."
     <<NWB, WS, Num(<<7>>)>>,       \* "Number of wire bits: 7"
     <<NC, WS, Num(<<5, 2>>)>> >>   \* "Number of cells: 52"

\* what subprocess.run returns: exit status and both captured streams
ToolResults ==
  { [returncode |-> 0, stdout |-> StatOutput, stderr |-> ""],
    [returncode |-> 1, stdout |-> StatOutput, stderr |-> "ERROR: syntax error"] }

\* how the body of the inner try block of yosys() ends: the tool exits, or
\* TimeoutExpired, FileNotFoundError or another Exception is raised, or a
\* BaseException that no handler of yosys() catches (KeyboardInterrupt)
Outcomes == {"exit", "timeout", "notfound", "error", "interrupt"}

(***************************************************************************)
(* prettify_name(filename)                                                 *)
(*                                                                         *)
(* A name is the sequence of its characters.                               *)
(***************************************************************************)
Letters ==
  { "A", "B", "C", "D", "E", "F", "G", "H", "I", "J", "K", "L", "M", "N", "O", "P", "Q", "R", "S", "T", "U", "V", "W", "X", "Y", "Z",
    "a", "b", "c", "d", "e", "f", "g", "h", "i", "j", "k", "l", "m", "n", "o", "p", "q", "r", "s", "t", "u", "v", "w", "x", "y", "z" }
Digits == {"0", "1", "2", "3", "4", "5", "6", "7", "8", "9"}

\* \w and \d of the regular expressions
IsWord(ch) == ch \in Letters \cup Digits \cup {"_"}
IsDigit(ch) == ch \in Digits

\* str.startswith
startswith(s, p) == Len(s) >= Len(p) /\ SubSeq(s, 1, Len(p)) = p

\* os.path.splitext(filename)[0] for a name without a directory part: the
\* extension starts at the last dot, unless only dots precede that dot
splitext(s) ==
  LET dots == {i \in DOMAIN s : s[i] = "."}
  IN IF dots = {} THEN s
     ELSE LET dotIndex == Max(dots)
          IN IF \E j \in 1..(dotIndex - 1) : s[j] # "."
             THEN SubSeq(s, 1, dotIndex - 1)
             ELSE s

\* where the longest run of characters of a class that starts at i ends
\* (i - 1 when s[i] is not of the class)
RunEnd(s, i, class) ==
  LET stops == {k \in i..Len(s) :
                  ~(IF class = "\\w" THEN IsWord(s[k]) ELSE IsDigit(s[k]))}
  IN IF stops = {} THEN Len(s) ELSE Min(stops) - 1

\* the tail  sep1(\d+)sep2(\d+)...  of a pattern matched at position i;
\* every \d+ takes its whole run of digits, since the next separator
\* starts with a character that is not a digit
RECURSIVE Fields(_, _, _)
Fields(s, i, seps) ==
  IF seps = <<>> THEN [ok |-> TRUE, g |-> <<>>]
  ELSE LET sep == Head(seps)
           a == i + Len(sep)
           b == RunEnd(s, a, "\\d")
       IN IF /\ Len(s) >= a - 1
             /\ SubSeq(s, i, a - 1) = sep
             /\ b >= a
          THEN LET r == Fields(s, b + 1, Tail(seps))
               IN [ok |-> r.ok, g |-> <<SubSeq(s, a, b)>> \o r.g]
          ELSE [ok |-> FALSE, g |-> <<>>]

\* re.match(prefix(\w+)sep1(\d+)sep2(\d+)..., s): the match is anchored at
\* the start only; the greedy \w+ keeps the longest run that the rest of
\* the pattern can follow
ReMatch(s, prefix, seps) ==
  LET p == Len(prefix) + 1
      ks == {k \in p..RunEnd(s, p, "\\w") : Fields(s, k + 1, seps).ok}
  IN IF ~startswith(s, prefix) \/ ks = {} THEN None
     ELSE LET k == Max(ks)
          IN [op |-> SubSeq(s, p, k), g |-> Fields(s, k + 1, seps).g]

\* the group (Rial\w+Phase1\w+Phase2\w+) followed by the _e_m_s tail
PhaseShape(t) ==
  \E i, j \in DOMAIN t :
    /\ i >= 2 /\ j >= i + 7 /\ j + 6 <= Len(t)
    /\ SubSeq(t, i, i + 5) = <<"P", "h", "a", "s", "e", "1">>
    /\ SubSeq(t, j, j + 5) = <<"P", "h", "a", "s", "e", "2">>

ReMatchPhase(s, prefix, seps) ==
  LET p == Len(prefix) + 1
      ks == {k \in p..RunEnd(s, p, "\\w") :
               Fields(s, k + 1, seps).ok /\ PhaseShape(SubSeq(s, p, k))}
  IN IF ~startswith(s, prefix) \/ ks = {} THEN None
     ELSE LET k == Max(ks)
          IN [op |-> SubSeq(s, p, k), g |-> Fields(s, k + 1, seps).g]

\* str.replace(old, new): every occurrence, leftmost first
RECURSIVE replace(_, _, _)
replace(s, old, new) ==
  IF Len(s) < Len(old) THEN s
  ELSE IF startswith(s, old)
       THEN new \o replace(SubSeq(s, Len(old) + 1, Len(s)), old, new)
       ELSE <<Head(s)>> \o replace(Tail(s), old, new)

\* fp_map without the two HardFloat entries (8,24) and (11,53)
fp_map_ieee_only(e, m) ==
  CASE e = <<"5">> /\ m = <<"1", "0">> -> <<"F", "P", "1", "6">>
    [] e = <<"8">> /\ m = <<"2", "3">> -> <<"F", "P", "3", "2">>
    [] e = <<"1", "1">> /\ m = <<"5", "2">> -> <<"F", "P", "6", "4">>
    [] OTHER -> <<"e">> \o e \o <<"_", "m">> \o m

\* fp_map.get((e, m), f"e{e}_m{m}")
fp_map(e, m) ==
  CASE e = <<"5">> /\ m = <<"1", "0">> -> <<"F", "P", "1", "6">>
    [] e = <<"8">> /\ m = <<"2", "3">> -> <<"F", "P", "3", "2">>
    [] e = <<"8">> /\ m = <<"2", "4">> -> <<"F", "P", "3", "2">>
    [] e = <<"1", "1">> /\ m = <<"5", "2">> -> <<"F", "P", "6", "4">>
    [] e = <<"1", "1">> /\ m = <<"5", "3">> -> <<"F", "P", "6", "4">>
    [] OTHER -> <<"e">> \o e \o <<"_", "m">> \o m

\* the bit widths that the CFG and OpenFloat rules turn into a label
KnownBits == {<<"1", "6">>, <<"3", "2">>, <<"6", "4">>}

\* the rules of prettify_name after the extension is removed and the
\* FLOPCO_FP test has failed, from the Rial rule on
prettify_rial(name0) ==
  LET rial_match == ReMatch(name0, <<"R", "i", "a", "l">>, <<<<"F", "P">>>>)
      name == replace(replace(name0, <<"R", "e", "c", "i", "p", "r", "o", "c", "a", "l", "A", "T", "a", "n", "2", "P", "h", "a", "s", "e", "1", "A", "T", "a", "n", "2", "P", "h", "a", "s", "e", "2">>, <<"A", "t", "a", "n", "2">>),
                      <<"S", "q", "r", "t", "A", "C", "o", "s", "P", "h", "a", "s", "e", "1", "A", "C", "o", "s", "P", "h", "a", "s", "e", "2">>, <<"A", "c", "o", "s">>)
      m == ReMatch(name, <<"R", "i", "a", "l">>, <<<<"_", "e">>, <<"_", "m">>, <<"_", "s">>>>)
      m2 == ReMatchPhase(name, <<"R", "i", "a", "l">>, <<<<"_", "e">>, <<"_", "m">>, <<"_", "s">>>>)
  IN IF rial_match # None
     THEN <<"R", "i", "a", "l">> \o rial_match.op \o <<"_">> \o <<"F", "P">> \o rial_match.g[1]
     ELSE IF m # None
     THEN <<"R", "i", "a", "l">> \o m.op \o <<"_">> \o fp_map(m.g[1], m.g[2])
     ELSE IF m2 # None
     THEN <<"R", "i", "a", "l">> \o m2.op \o <<"_">> \o fp_map(m2.g[1], m2.g[2])
     ELSE name

prettify_name(filename) ==
  LET name == splitext(filename)
      cfg_match == ReMatch(name, <<"C", "F", "G", "_", "F", "P", "_">>, <<<<"_">>, <<"_">>>>)
      hardfloat_match == ReMatch(name, <<"F", "P">>, <<<<"_">>, <<"_">>>>)
      openfloat_match == ReMatch(name, <<"F", "P", "_">>, <<<<"_">>, <<"_">>>>)
      openfloat_div_match == ReMatch(name, <<"F", "P", "_">>, <<<<"_">>, <<"_">>, <<"_">>>>)
  IN IF startswith(name, <<"F", "L", "O", "P", "C", "O", "_", "F", "P">>) THEN name
     ELSE IF cfg_match # None /\ cfg_match.g[1] \in KnownBits
     THEN <<"C", "F", "G">> \o cfg_match.op \o <<"_">> \o <<"F", "P">> \o cfg_match.g[1]
     ELSE IF hardfloat_match # None
     THEN <<"H", "a", "r", "d", "F", "l", "o", "a", "t">> \o hardfloat_match.op \o <<"_">>
            \o fp_map(hardfloat_match.g[1], hardfloat_match.g[2])
     ELSE IF openfloat_match # None /\ openfloat_match.g[1] \in KnownBits
     THEN <<"O", "p", "e", "n", "F", "l", "o", "a", "t">> \o openfloat_match.op \o <<"_">> \o <<"F", "P">>
            \o openfloat_match.g[1]
     ELSE IF openfloat_div_match # None /\ openfloat_div_match.g[1] \in KnownBits
     THEN <<"O", "p", "e", "n", "F", "l", "o", "a", "t">> \o openfloat_div_match.op \o <<"_">> \o <<"F", "P">>
            \o openfloat_div_match.g[1]
     ELSE prettify_rial(name)

\* xml_to_html.get_lib(full_name): the library a label is listed under
lower(s) ==
  LET upper == <<"A", "B", "C", "D", "E", "F", "G", "H", "I", "J", "K", "L", "M", "N", "O", "P", "Q", "R", "S", "T", "U", "V", "W", "X", "Y", "Z">>
      small == <<"a", "b", "c", "d", "e", "f", "g", "h", "i", "j", "k", "l", "m", "n", "o", "p", "q", "r", "s", "t", "u", "v", "w", "x", "y", "z">>
      low(ch) == IF \E i \in 1..26 : upper[i] = ch
                 THEN small[CHOOSE i \in 1..26 : upper[i] = ch]
                 ELSE ch
  IN [i \in DOMAIN s |-> low(s[i])]

\* the test  p in s  on strings
InStr(p, s) == \E i \in 1..(Len(s) - Len(p) + 1) : SubSeq(s, i, i + Len(p) - 1) = p

get_lib(full_name) ==
  LET n == lower(full_name)
  IN IF InStr(<<"o", "p", "e", "n", "f", "l", "o", "a", "t">>, n) THEN "openfloat"
     ELSE IF InStr(<<"h", "a", "r", "d", "f", "l", "o", "a", "t">>, n) THEN "hardfloat"
     ELSE IF InStr(<<"r", "i", "a", "l">>, n) THEN "rial"
     ELSE "other"

\* the file names the normalizer is tried on:  head op tail extension
NameHeads ==
  { <<"F", "P">>,
    <<"F", "P", "_">>,
    <<"C", "F", "G", "_", "F", "P", "_">>,
    <<"R", "i", "a", "l">>,
    <<"F", "L", "O", "P", "C", "O", "_", "F", "P">>,
    <<"R", "i", "a", "l", "S", "q", "r", "t", "A", "C", "o", "s", "P", "h", "a", "s", "e", "1", "A", "C", "o", "s", "P", "h", "a", "s", "e", "2">> }
NameOps == { <<"A", "D", "D">>,
             <<"a", "d", "d">>,
             <<"A", "d", "d">> }
NameNums ==
  { <<"5">>,
    <<"1", "0">>,
    <<"8">>,
    <<"2", "3">>,
    <<"2", "4">>,
    <<"1", "1">>,
    <<"5", "2">>,
    <<"5", "3">>,
    <<"1", "6">>,
    <<"3", "2">>,
    <<"6", "4">>,
    <<"1">> }
NameExts == { <<>>,
    <<".", "s", "v">> }
RialTails ==
  { <<"F", "P", "1", "6">>,
    <<"_", "F", "P", "1", "6">>,
    <<"_", "F", "P", "3", "2">>,
    <<"_", "e", "5", "_", "m", "1", "0", "_", "s", "1">>,
    <<"_", "e", "8", "_", "m", "2", "3", "_", "s", "0">>,
    <<"_", "e", "3", "_", "m", "4", "_", "s", "1">> }

\* _<n1>_<n2>... for a sequence of numbers
RECURSIVE NumTail(_)
NumTail(f) == IF f = <<>> THEN <<>> ELSE <<"_">> \o Head(f) \o NumTail(Tail(f))

NameTails(n) == {NumTail(f) : f \in SeqsUpTo(NameNums, n)} \cup RialTails

Names(n) ==
  {h \o o \o t \o x : h \in NameHeads, o \in NameOps, t \in NameTails(n),
                      x \in NameExts}

(***************************************************************************)
(* preprocess_sv_file(filename)                                            *)
(*                                                                         *)
(* A source text is the list content.split('\n') of its lines; a line is   *)
(* the sequence of its lexemes, runs of blanks included.                   *)
(***************************************************************************)
\* A compiler directive is written with ^ for its grave accent.
\* runs of blanks: one space, and two indentations
SrcSpace == {" ", "    ", "      "}
IsSpace(t) == t \in SrcSpace

\* the type keywords that the first substitution keeps after "automatic"
TypeKeywords ==
  { "logic", "reg", "wire", "integer", "real", "time", "int", "bit", "byte",
    "shortint", "longint", "shortreal", "string", "chandle", "event",
    "struct", "union", "enum", "class", "interface", "modport", "package",
    "program", "task", "function" }

\* lexemes that are one word (\w+)
WordToks ==
  TypeKeywords \cup
  { "automatic", "always", "begin", "end", "endcase", "assign", "x", "y", "a",
    "b", "tmp", "q", "layers_X", "ENABLE_INITIAL_REG_", "FOO" }
IsWordTok(t) == t \in WordToks

\* lexemes whose text contains layers- / verification (any case) / the
\* FILE markers of a verification section / the guard marker
QuotedLayers == "\"layers-x.sv\""
QuotedVerification == "\"Verification.sv\""
QuotedPlain == "\"defs.sv\""
FileVerification == "FILE \"verification/x.sv\""
FileLayers == "FILE \"layers-x.sv\""
HasLayers(t) == t \in {QuotedLayers, FileLayers}
HasVerification(t) == t \in {QuotedVerification, FileVerification}
HasFileMarker(t) == t \in {FileVerification, FileLayers}
HasGuardMarker(t) == t = "ENABLE_INITIAL_REG_"
\* a quoted path with the word layers- in it, or with the word
\* verification in any case
QuotedPathWith(word, t) ==
  IF word = "layers-" THEN t = QuotedLayers ELSE t = QuotedVerification

Has(line, t) == \E i \in DOMAIN line : line[i] = t
IsBlank(line) == \A i \in DOMAIN line : IsSpace(line[i])

\* a line without the blanks at its two ends
RECURSIVE lstrip_blanks(_)
lstrip_blanks(line) ==
  IF line # <<>> /\ IsSpace(Head(line)) THEN lstrip_blanks(Tail(line)) ELSE line
RECURSIVE rstrip_blanks(_)
rstrip_blanks(line) ==
  IF line # <<>> /\ IsSpace(line[Len(line)])
  THEN rstrip_blanks(SubSeq(line, 1, Len(line) - 1)) ELSE line

\* lines 198-200: both substitutions on one line.  "automatic" with the
\* blanks after it goes; a type keyword that follows keeps one space
RECURSIVE strip_automatic(_)
strip_automatic(line) ==
  IF line = <<>> THEN <<>>
  ELSE IF Head(line) = "automatic" /\ Len(line) >= 2 /\ IsSpace(line[2])
  THEN IF Len(line) >= 4 /\ line[3] \in TypeKeywords /\ IsSpace(line[4])
       THEN <<line[3], " ">> \o strip_automatic(SubSeq(line, 5, Len(line)))
       ELSE strip_automatic(SubSeq(line, 3, Len(line)))
  ELSE <<Head(line)>> \o strip_automatic(Tail(line))

\* the test of lines 214-217 without the test of the path
IsAnyInclude(line) ==
  /\ Has(line, "^include")

\* lines 209-221: the lines with an include of a verification file go
IsVerificationInclude(line) ==
  /\ Has(line, "^include")
  /\ \E i \in DOMAIN line : HasLayers(line[i]) \/ HasVerification(line[i])

RECURSIVE drop_include_lines(_)
drop_include_lines(lines) ==
  IF lines = <<>> THEN <<>>
  ELSE IF IsVerificationInclude(Head(lines))
       THEN drop_include_lines(Tail(lines))
       ELSE <<Head(lines)>> \o drop_include_lines(Tail(lines))

\* the first line from index i on that is not blank, 0 if there is none
NextSolid(lines, i) ==
  LET solid == {k \in i..Len(lines) : ~IsBlank(lines[k])}
  IN IF solid = {} THEN 0 ELSE Min(solid)

\* lines 225-226: re.sub of the pattern  blanks include \s+ quoted-path rest-of-line line-end,
\* where the quoted path holds the word layers- or verification.
\* The match starts at the blanks before include; \s+ may run over line
\* ends, so the quoted path is on the line of include or starts the next
\* line that is not blank; the match takes the rest of the line of the path
\* and its line end.
IncludeAt(line) ==
  LET hits == {i \in DOMAIN line : line[i] = "^include"} IN
  IF hits = {} THEN 0 ELSE Min(hits)

\* the index of the last line the match takes from lines, 0 if nothing
\* matches on the first line
IncludeMatch(lines, word) ==
  LET line == Head(lines)
      i == IncludeAt(line)
  IN IF i = 0 THEN 0
     ELSE IF /\ Len(line) >= i + 2
             /\ IsSpace(line[i + 1])
             /\ QuotedPathWith(word, line[i + 2])
     THEN 1
     ELSE IF /\ IsBlank(SubSeq(line, i + 1, Len(line)))
             /\ NextSolid(lines, 2) # 0
             /\ QuotedPathWith(word, Head(lstrip_blanks(lines[NextSolid(lines, 2)])))
     THEN NextSolid(lines, 2)
     ELSE 0

RECURSIVE sub_include(_, _)
sub_include(lines, word) ==
  IF lines = <<>> THEN <<>>
  ELSE LET n == IncludeMatch(lines, word)
           before == rstrip_blanks(SubSeq(Head(lines), 1, IncludeAt(Head(lines)) - 1))
           rest == sub_include(SubSeq(lines, n + 1, Len(lines)), word)
       IN IF n = 0 THEN <<Head(lines)>> \o sub_include(Tail(lines), word)
          ELSE IF rest = <<>> THEN <<before>>
          ELSE <<before \o Head(rest)>> \o Tail(rest)

\* variant of section_step: the blank line that ends a section is emitted
section_step_keeps_blank(st, line) ==
  LET skip1 == st.skip_verification \/ \E i \in DOMAIN line : HasFileMarker(line[i])
  IN [ cleaned_lines |-> IF skip1 /\ ~IsBlank(line) THEN st.cleaned_lines
                         ELSE Append(st.cleaned_lines, line),
       skip_verification |-> IF skip1 /\ IsBlank(line) THEN FALSE ELSE skip1 ]

\* lines 230-242: the verification sections go
section_step(st, line) ==
  LET skip1 == st.skip_verification \/ \E i \in DOMAIN line : HasFileMarker(line[i])
  IN [ cleaned_lines |-> IF skip1 THEN st.cleaned_lines
                         ELSE Append(st.cleaned_lines, line),
       skip_verification |-> IF skip1 /\ IsBlank(line) THEN FALSE ELSE skip1 ]

\* lines 230-231: the state of the pass before the first line
SectionStart == [cleaned_lines |-> <<>>, skip_verification |-> FALSE]

RECURSIVE section_scan(_, _)
section_scan(lines, n) ==
  IF n = 0 THEN [cleaned_lines |-> <<>>, skip_verification |-> FALSE]
  ELSE section_step(section_scan(lines, n - 1), lines[n])

drop_sections(lines) == section_scan(lines, Len(lines)).cleaned_lines

\* lines 245 and 248: re.sub of a three-line guard idiom
\*   ifndef <guard> \n \s* define ... \n \s* endif ... \n
\* \s* runs over blank lines.  The match starts at ifndef and ends with
\* the line end after the endif line, which has to be there.
IfndefAt(line) ==
  LET hits == {i \in DOMAIN line : line[i] = "^ifndef"} IN
  IF hits = {} THEN 0 ELSE Min(hits)

\* ifndef\s+layers_[^\n]+  and  define[^\n]+
LayersGuard(line, p) ==
  /\ Len(line) >= p + 2
  /\ IsSpace(line[p + 1])
  /\ line[p + 2] = "layers_X"
AnyDefine(line) ==
  LET l == lstrip_blanks(line)
  IN Len(l) >= 2 /\ l[1] = "^define"

\* ifndef\s+\w+\s*  and  define\s+\w+\s*  up to the line end
WordGuard(line, p) ==
  /\ Len(line) >= p + 2
  /\ IsSpace(line[p + 1])
  /\ IsWordTok(line[p + 2])
  /\ IsBlank(SubSeq(line, p + 3, Len(line)))
WordDefine(line) ==
  LET l == rstrip_blanks(lstrip_blanks(line))
  IN Len(l) = 3 /\ l[1] = "^define" /\ IsSpace(l[2]) /\ IsWordTok(l[3])

\* the index of the endif line of an idiom that starts on the first line
\* of lines, 0 if none does
TripleEnd(lines, idiom) ==
  LET p == IfndefAt(Head(lines))
      d == NextSolid(lines, 2)
      e == NextSolid(lines, d + 1)
  IN IF /\ p # 0
        /\ IF idiom = "layers" THEN LayersGuard(Head(lines), p)
                              ELSE WordGuard(Head(lines), p)
        /\ d # 0
        /\ IF idiom = "layers" THEN AnyDefine(lines[d]) ELSE WordDefine(lines[d])
        /\ e # 0
        /\ Head(lstrip_blanks(lines[e])) = "^endif"
        /\ e < Len(lines)
     THEN e ELSE 0

RECURSIVE sub_triple(_, _)
sub_triple(lines, idiom) ==
  IF lines = <<>> THEN <<>>
  ELSE LET e == TripleEnd(lines, idiom)
           before == SubSeq(Head(lines), 1, IfndefAt(Head(lines)) - 1)
           rest == sub_triple(SubSeq(lines, e + 1, Len(lines)), idiom)
       IN IF e = 0 THEN <<Head(lines)>> \o sub_triple(Tail(lines), idiom)
          ELSE <<before \o Head(rest)>> \o Tail(rest)

\* lines 255-272: one iteration of the guarded-block pass
IfdefMarker(line) ==
  \E i \in DOMAIN line :
    line[i] = "^ifdef" /\ Len(line) >= i + 2 /\ IsSpace(line[i + 1])
      /\ HasGuardMarker(line[i + 2])
IfndefMarker(line) ==
  \E i \in DOMAIN line :
    line[i] = "^ifndef" /\ Len(line) >= i + 2 /\ IsSpace(line[i + 1])
      /\ HasGuardMarker(line[i + 2])
EndifMarker(line) ==
  \E i, j \in DOMAIN line : i < j /\ line[i] = "^endif" /\ HasGuardMarker(line[j])

guard_step(st, line) ==
  LET marked == \E i \in DOMAIN line : HasGuardMarker(line[i])
  IN IF marked /\ IfdefMarker(line)
     THEN [st EXCEPT !.skip_depth = st.skip_depth + 1]
     ELSE IF marked /\ IfndefMarker(line)
     THEN [st EXCEPT !.skip_depth = 1]
     ELSE IF marked /\ EndifMarker(line)
     THEN [st EXCEPT !.skip_depth = st.skip_depth - 1]
     ELSE IF st.skip_depth > 0
     THEN IF Has(line, "^ifdef") \/ Has(line, "^ifndef")
          THEN [st EXCEPT !.skip_depth = st.skip_depth + 1]
          ELSE IF Has(line, "^endif")
          THEN [st EXCEPT !.skip_depth = st.skip_depth - 1]
          ELSE st
     ELSE [st EXCEPT !.cleaned = Append(st.cleaned, line)]

GuardStart == [cleaned |-> <<>>, skip_depth |-> 0]

RECURSIVE guard_scan(_, _)
guard_scan(lines, n) ==
  IF n = 0 THEN GuardStart
  ELSE guard_step(guard_scan(lines, n - 1), lines[n])

drop_guarded(lines) == guard_scan(lines, Len(lines)).cleaned

(***************************************************************************)
(* _hoist_logic_from_always(content)                                       *)
(***************************************************************************)
\* lexemes of the forms (...) and [...]
ParenToks == {"(posedge clk)"}
RangeToks == {"[7:0]"}

\* the closing keywords that keep a line from counting as an end
EndFused ==
  {"endendmodule", "endfunction", "endcase", "endtask", "endprimitive",
   "endgenerate"}

\* re.match(r'^(\s*)always\s+@\s*\([^)]+\)\s+begin\b', line): the indent
\* of the header when the line matches
AlwaysMatch(line) ==
  LET k == IF line # <<>> /\ IsSpace(line[1]) THEN 2 ELSE 1
      a == IF Len(line) >= k + 3 /\ IsSpace(line[k + 3]) THEN k + 4 ELSE k + 3
  IN IF /\ Len(line) >= a + 2
        /\ line[k] = "always"
        /\ IsSpace(line[k + 1])
        /\ line[k + 2] = "@"
        /\ line[a] \in ParenToks
        /\ IsSpace(line[a + 1])
        /\ line[a + 2] = "begin"
     THEN [ok |-> TRUE, indent |-> SubSeq(line, 1, k - 1)]
     ELSE [ok |-> FALSE, indent |-> <<>>]

\* cur.split('//')[0]
CodePart(line) ==
  LET cuts == {i \in DOMAIN line : line[i] = "//"}
  IN IF cuts = {} THEN line ELSE SubSeq(line, 1, Min(cuts) - 1)

\* re.match(r'^(\s*)logic\s+(\[[^\]]+\]\s+)?(\w+)\s*=\s*(.*)$', cur)
LogicMatch(cur) ==
  LET k == IF cur # <<>> /\ IsSpace(cur[1]) THEN 2 ELSE 1
      ranged == Len(cur) >= k + 3 /\ cur[k + 2] \in RangeToks /\ IsSpace(cur[k + 3])
      n == IF ranged THEN k + 4 ELSE k + 2
      e == IF Len(cur) >= n + 1 /\ IsSpace(cur[n + 1]) THEN n + 2 ELSE n + 1
      r == IF Len(cur) >= e + 1 /\ IsSpace(cur[e + 1]) THEN e + 2 ELSE e + 1
  IN IF /\ Len(cur) >= e
        /\ cur[k] = "logic"
        /\ IsSpace(cur[k + 1])
        /\ IsWordTok(cur[n])
        /\ cur[e] = "="
     THEN [ typ |-> IF ranged THEN SubSeq(cur, k + 2, k + 3) ELSE <<>>,
            name |-> cur[n],
            eq |-> e,
            rhs |-> SubSeq(cur, r, Len(cur)) ]
     ELSE None

\* ' '.join(s.split()) of the lines of a statement joined by line ends
RECURSIVE collapse(_)
collapse(toks) ==
  IF toks = <<>> THEN <<>>
  ELSE IF IsSpace(Head(toks))
       THEN LET rest == collapse(lstrip_blanks(toks))
            IN IF rest = <<>> THEN <<>> ELSE <<" ">> \o rest
       ELSE <<Head(toks)>> \o collapse(Tail(toks))

RECURSIVE join_lines(_)
join_lines(stmt) ==
  IF Len(stmt) = 1 THEN stmt[1]
  ELSE stmt[1] \o <<" ">> \o join_lines(Tail(stmt))

\* variant of LogicStatement: a statement without ';' is not consumed, the
\* scan resumes at its first line
LogicStatementUnconsumed(lines, i, indent) ==
  LET lm == LogicMatch(lines[i])
      closed == {j \in i..Len(lines) :
                   IF j = i THEN Has(lm.rhs, ";") ELSE Has(lines[j], ";")}
      last == IF closed = {} THEN i - 1 ELSE Min(closed)
      full == join_lines(SubSeq(lines, i, Max({i, last})))
      semis == {p \in DOMAIN full : full[p] = ";"}
      rhs == collapse(lstrip_blanks(SubSeq(full, lm.eq + 1, Max(semis) - 1)))
  IN [ j |-> last + 1,
       wires |-> IF semis = {} THEN <<>>
                 ELSE << indent \o <<"wire", " ">> \o lm.typ
                           \o <<lm.name, " ", "=", " ">> \o rhs \o <<";">> >> ]

\* lines 156-173: the statement that starts at line i, and its wire line
\* (none if the statement has no ';')
LogicStatement(lines, i, indent) ==
  LET lm == LogicMatch(lines[i])
      closed == {j \in i..Len(lines) :
                   IF j = i THEN Has(lm.rhs, ";") ELSE Has(lines[j], ";")}
      last == IF closed = {} THEN Len(lines) ELSE Min(closed)
      full == join_lines(SubSeq(lines, i, last))
      semis == {p \in DOMAIN full : full[p] = ";"}
      rhs == collapse(lstrip_blanks(SubSeq(full, lm.eq + 1, Max(semis) - 1)))
  IN [ j |-> last + 1,
       wires |-> IF semis = {} THEN <<>>
                 ELSE << indent \o <<"wire", " ">> \o lm.typ
                           \o <<lm.name, " ", "=", " ">> \o rhs \o <<";">> >> ]

\* the state of the scanner before the first iteration
HoistStart ==
  [ i |-> 1, out |-> <<>>, inside |-> FALSE, indent |-> <<>>,
    always_start |-> 0, depth |-> 0, hoisted |-> <<>> ]

\* the inner loop is left when its condition fails
LeaveInner(st, lines) ==
  IF st.inside /\ (st.i > Len(lines) \/ st.depth <= 0)
  THEN [st EXCEPT !.inside = FALSE] ELSE st

\* lines 124-179: one iteration of the outer loop (inside = FALSE) or of
\* the inner loop (inside = TRUE), for st.i <= Len(lines)
hoist_step(st, lines) ==
  LET cur == lines[st.i]
      m == AlwaysMatch(cur)
      rest == CodePart(cur)
      depth1 == IF Has(rest, "begin") THEN st.depth + 1 ELSE st.depth
      is_end == Has(rest, "end") /\ ~\E t \in EndFused : Has(rest, t)
      s == LogicStatement(lines, st.i, st.indent)
      next ==
        IF ~st.inside
        THEN IF m.ok
             THEN [ i |-> st.i + 1, out |-> Append(st.out, cur),
                    inside |-> TRUE, indent |-> m.indent,
                    always_start |-> Len(st.out), depth |-> 1,
                    hoisted |-> <<>> ]
             ELSE [st EXCEPT !.i = st.i + 1, !.out = Append(st.out, cur)]
        ELSE IF is_end
        THEN IF depth1 - 1 = 0
             THEN [st EXCEPT !.i = st.i + 1, !.depth = 0,
                     !.out = SubSeq(st.out, 1, st.always_start) \o st.hoisted
                             \o SubSeq(st.out, st.always_start + 1, Len(st.out))
                             \o <<cur>>]
             ELSE [st EXCEPT !.i = st.i + 1, !.depth = depth1 - 1,
                     !.out = Append(st.out, cur)]
        ELSE IF LogicMatch(cur) # None
        THEN [st EXCEPT !.i = s.j, !.depth = depth1,
                !.hoisted = st.hoisted \o s.wires]
        ELSE [st EXCEPT !.i = st.i + 1, !.depth = depth1,
                !.out = Append(st.out, cur)]
  IN LeaveInner(next, lines)

RECURSIVE hoist_scan(_, _)
hoist_scan(st, lines) ==
  IF st.i > Len(lines) THEN st ELSE hoist_scan(hoist_step(st, lines), lines)

hoist_logic_from_always(lines) == hoist_scan(HoistStart, lines).out

\* line 281: content.replace("'{", "{")
replace_array_pattern(line) ==
  [i \in DOMAIN line |-> IF line[i] = "'{" THEN "{" ELSE line[i]]

\* lines 186-283: the passes in the order of the code
preprocess_sv_file(lines) ==
  LET p1 == [i \in DOMAIN lines |-> strip_automatic(lines[i])]
      p2 == drop_include_lines(p1)
      p3 == sub_include(sub_include(p2, "layers-"), "verification")
      p4 == drop_sections(p3)
      p5 == sub_triple(sub_triple(p4, "layers"), "word")
      p6 == drop_guarded(p5)
      p7 == hoist_logic_from_always(p6)
  IN [i \in DOMAIN p7 |-> replace_array_pattern(p7[i])]

\* the source lines the passes are tried on
PlainLine == <<"assign", " ", "y", " ", "=", " ", "a", ";">>
EmptyLine == <<>>
AutomaticLine == <<"    ", "automatic", " ", "logic", "    ", "x", ";">>
LayersIncludeLine == <<"^include", " ", QuotedLayers>>
PlainIncludeLine == <<"^include", " ", QuotedPlain>>
IncludeOnlyLine == <<"    ", "^include">>
PathOnlyLine == <<"    ", QuotedVerification>>
SectionMarkLine == <<"//", " ", FileVerification>>
IfndefLayersLine == <<"^ifndef", " ", "layers_X">>
DefineLayersLine == <<"    ", "^define", " ", "layers_X">>
EndifLine == <<"^endif">>
IfdefMarkerLine == <<"^ifdef", " ", "ENABLE_INITIAL_REG_">>
IfndefMarkerLine == <<"^ifndef", " ", "ENABLE_INITIAL_REG_">>
EndifMarkerLine == <<"^endif", " ", "//", " ", "ENABLE_INITIAL_REG_">>
IfdefFooLine == <<"^ifdef", " ", "FOO">>
AlwaysLine == <<"always", " ", "@", "(posedge clk)", " ", "begin">>
OneLineAlways ==
  <<"always", " ", "@", "(posedge clk)", " ", "begin", " ", "q", " ", "<=",
    " ", "a", ";", " ", "end">>
DeclLine ==
  <<"    ", "logic", " ", "[7:0]", " ", "tmp", " ", "=", " ", "a", " ", "+",
    " ", "b", ";">>
DeclPlainLine == <<"    ", "logic", " ", "x", " ", "=", " ", "a", ";">>
DeclOpenLine == <<"    ", "logic", " ", "y", " ", "=", " ", "a", " ", "+">>
ContLine == <<"      ", "b", ";">>
BeginLine == <<"    ", "if", " ", "(a)", " ", "begin">>
EndLine == <<"end">>
StmtLine == <<"    ", "q", " ", "<=", " ", "a", ";">>
ArrayLine == <<"assign", " ", "x", " ", "=", " ", "'{", "a", "}", ";">>

SpacesLine == <<"    ">>
LayersMarkLine == <<"//", " ", FileLayers>>
SectionLines ==
  { PlainLine, EmptyLine, SpacesLine, SectionMarkLine, LayersMarkLine,
    PathOnlyLine }
SrcLines ==
  { PlainLine, EmptyLine, AutomaticLine, LayersIncludeLine, PlainIncludeLine,
    IncludeOnlyLine, PathOnlyLine, SectionMarkLine, IfndefLayersLine,
    DefineLayersLine, EndifLine, IfdefMarkerLine, EndifMarkerLine, AlwaysLine,
    DeclLine, EndLine, ArrayLine }
GuardLines ==
  { PlainLine, IfdefMarkerLine, IfndefMarkerLine, EndifMarkerLine,
    IfdefFooLine, EndifLine }
HoistLines ==
  { AlwaysLine, OneLineAlways, DeclLine, DeclPlainLine, DeclOpenLine,
    ContLine, BeginLine, EndLine, StmtLine }

\* what preprocess_sv_file has returned: nothing yet, a text, or None
Pending == [done |-> FALSE, ok |-> FALSE, content |-> <<>>]
Returned(lines) == [done |-> TRUE, ok |-> TRUE, content |-> lines]
ReturnedNone == [done |-> TRUE, ok |-> FALSE, content |-> <<>>]

\* content.split('\n') is never empty
SrcTexts(L, n) == SeqsUpTo(L, n) \ {<<>>}

(***************************************************************************)
(* get_top_module(filename), get_top_entity(filename)                      *)
(***************************************************************************)
\* The text of a file is the list of its lines, a line the list of its
\* lexemes, a lexeme the list of its characters: a maximal run of word
\* characters, a blank, or a single other character.
\* \w+ and \s on a lexeme
IsWordRun(lx) == lx # <<>> /\ \A i \in DOMAIN lx : IsWord(lx[i])
IsBlankLex(lx) == lx \in {<<" ">>, <<"\n">>}

\* content of a file from its lines: the line ends are lexemes too
RECURSIVE content_of(_)
content_of(lines) ==
  IF lines = <<>> THEN <<>>
  ELSE IF Len(lines) = 1 THEN lines[1]
  ELSE lines[1] \o << <<"\n">> >> \o content_of(Tail(lines))

\* the first lexeme at or after position p that is no blank, 0 if none
NextLexeme(text, p) ==
  LET solid == {q \in p..Len(text) : ~IsBlankLex(text[q])}
  IN IF solid = {} THEN 0 ELSE Min(solid)

\* the names the list in get_top_module skips
skip_words ==
  { <<"v", "e", "r", "i", "f", "i", "c", "a", "t", "i", "o", "n">>,
    <<"a", "s", "s", "e", "r", "t">>, <<"a", "s", "s", "u", "m", "e">>,
    <<"c", "o", "v", "e", "r">>, <<"l", "a", "y", "e", "r">> }

\* variant of skipped: the test is made on the name as written
skipped_case_sensitive(name) == \E skip \in skip_words : InStr(skip, name)

\* any(skip in name.lower() for skip in [...])
skipped(name) == \E skip \in skip_words : InStr(skip, lower(name))

\* re.compile(r'\bmodule\s+(\w+)\s*(?:\(|#)'): the position of the name of
\* the match that starts at lexeme p, 0 if none starts there
ModuleMatch(text, p) ==
  LET n == NextLexeme(text, p + 1)
      a == IF n = 0 THEN 0 ELSE NextLexeme(text, n + 1)
  IN IF /\ text[p] = <<"m", "o", "d", "u", "l", "e">>
        /\ n > p + 1
        /\ IsWordRun(text[n])
        /\ a # 0
        /\ text[a] \in {<<"(">>, <<"#">>}
     THEN n ELSE 0

\* lines 297-302: the names finditer gives that are not skipped, in order
RECURSIVE candidates(_, _)
candidates(text, p) ==
  IF p > Len(text) THEN <<>>
  ELSE LET n == ModuleMatch(text, p)
       IN IF n = 0 THEN candidates(text, p + 1)
          ELSE (IF skipped(text[n]) THEN <<>> ELSE <<text[n]>>)
                 \o candidates(text, n + 1)

\* what a top finder has not returned yet, a name it returns, None
\* raised: the handler "except Exception" has run
NoTop == [done |-> FALSE, found |-> FALSE, name |-> <<>>, raised |-> FALSE]
TopName(name) == [done |-> TRUE, found |-> TRUE, name |-> name, raised |-> FALSE]
TopNone == [done |-> TRUE, found |-> FALSE, name |-> <<>>, raised |-> FALSE]

\* lines 292-313.  readable: open() and read() raise nothing
get_top_module(lines, base, readable) ==
  LET c == candidates(content_of(lines), 1)
  IN IF ~readable THEN [TopName(base) EXCEPT !.raised = TRUE]
     ELSE IF c = <<>> THEN TopName(base)
     ELSE IF \E i \in DOMAIN c : c[i] = base THEN TopName(base)
     ELSE TopName(c[Len(c)])

\* re.search(r'\bentity\b', line, re.IGNORECASE) on a lexeme
IsEntityWord(lx) == lower(lx) = <<"e", "n", "t", "i", "t", "y">>

\* lines 330-335: the word after the entity keyword at lexeme p of the
\* line, <<>> if re.match(r'\s*(\w+)', rest_of_line) gives None
WordAfter(line, p) ==
  LET n == NextLexeme(line, p + 1)
  IN IF n # 0 /\ IsWordRun(line[n]) THEN line[n] ELSE <<>>

\* lines 326-335 for one line: last_entity_word after the line
RECURSIVE entity_line(_, _, _)
entity_line(line, p, word) ==
  IF p > Len(line) THEN word
  ELSE IF IsEntityWord(line[p]) /\ WordAfter(line, p) # <<>>
       THEN entity_line(line, p + 1, WordAfter(line, p))
       ELSE entity_line(line, p + 1, word)

\* lines 324-335: last_entity_word after the first n lines, <<>> for None
RECURSIVE last_entity_word(_, _)
last_entity_word(lines, n) ==
  IF n = 0 THEN <<>>
  ELSE entity_line(lines[n], 1, last_entity_word(lines, n - 1))

\* lines 317-345.  readable: open() and read() raise nothing
get_top_entity(lines, readable) ==
  LET w == last_entity_word(lines, Len(lines))
  IN IF ~readable THEN [TopNone EXCEPT !.raised = TRUE]
     ELSE IF w = <<>> THEN TopNone
     ELSE TopName(w)

\* the names in the files the top finders are tried on
NameFPADD == <<"F", "P", "A", "D", "D">>
NameSub == <<"S", "u", "b">>
NameCover == <<"C", "o", "v", "e", "r">>
NameFPDiv == <<"F", "P", "D", "i", "v">>
NameAux == <<"A", "u", "x">>
ModuleNames == {NameFPADD, NameSub, NameCover}
EntityNames == {NameFPDiv, NameAux}

\* lines of SystemVerilog: module headers with a port list, with a
\* parameter list, with the name on the next line, and the end of a module
ModulePorts(name) == <<<<"m", "o", "d", "u", "l", "e">>, <<" ">>, name, <<"(">> >>
ModuleParams(name) == <<<<"m", "o", "d", "u", "l", "e">>, <<" ">>, name, <<" ">>, <<"#">>, <<"(">> >>
ModuleAlone == <<<<"m", "o", "d", "u", "l", "e">>>>
NameLine(name) == << <<" ">>, name, <<" ">>, <<"(">> >>
EndmoduleLine == <<<<"e", "n", "d", "m", "o", "d", "u", "l", "e">>>>
ModuleLines ==
  {ModulePorts(n) : n \in ModuleNames} \cup {ModuleParams(n) : n \in ModuleNames}
    \cup {NameLine(n) : n \in ModuleNames} \cup {ModuleAlone, EndmoduleLine}

\* lines of VHDL: an entity declaration in either case, the end of one
\* with and without the name, a direct instantiation, an architecture
EntityDecl(name) == <<<<"e", "n", "t", "i", "t", "y">>, <<" ">>, name, <<" ">>, <<"i", "s">>>>
EntityDeclUpper(name) == <<<<"E", "N", "T", "I", "T", "Y">>, <<" ">>, name, <<" ">>, <<"I", "S">>>>
EndEntity(name) == <<<<"e", "n", "d">>, <<" ">>, <<"e", "n", "t", "i", "t", "y">>, <<" ">>, name, <<";">> >>
EndEntityPlain == <<<<"e", "n", "d">>, <<" ">>, <<"e", "n", "t", "i", "t", "y">>, <<";">> >>
Instantiation(name) ==
  <<<<"u", "1">>, <<":">>, <<" ">>, <<"e", "n", "t", "i", "t", "y">>, <<" ">>, <<"w", "o", "r", "k">>, <<".">>, name>>
ArchitectureLine(name) ==
  <<<<"a", "r", "c", "h", "i", "t", "e", "c", "t", "u", "r", "e">>, <<" ">>, <<"r", "t", "l">>, <<" ">>, <<"o", "f">>, <<" ">>, name, <<" ">>, <<"i", "s">>>>
EntityLines ==
  {EntityDecl(n) : n \in EntityNames} \cup {EntityDeclUpper(NameAux)}
    \cup {EndEntity(n) : n \in EntityNames} \cup {Instantiation(NameAux)}
    \cup {EndEntityPlain, ArchitectureLine(NameFPDiv)}

(***************************************************************************)
(* State                                                                   *)
(***************************************************************************)
VARIABLES
  files,      \* process_files: the argument, a list of files
  future,     \* process_files: the future of each submitted call
  frame,      \* per worker process: the locals of the yosys(fn) call it runs
  fs,         \* temporary files that exist in the working directory
  log,        \* yosys_output.log, a sequence of entries
  results,    \* process_files: the results dict
  yielded,    \* process_files: futures as_completed has yielded
  dpc,        \* process_files: "collect" or "returned"
  etext,      \* extractor: the captured output text
  evhdl,      \* extractor: fn.endswith('.vhdl')
  eres,       \* extractor: the result of the parse section
  epc,        \* extractor: "start" or "done"
  nname,      \* name normalizer: the file name it is given first
  nout,       \* name normalizer: the labels returned so far, in order
  src,        \* rewriter: the lines of the source text
  rout,       \* rewriter: what preprocess_sv_file returned
  gi,         \* guarded-block pass: the index of the next line
  gst,        \* guarded-block pass: cleaned and skip_depth
  hst,        \* hoisting scanner: its locals
  mpc,        \* main: the step it is at, "idle" when main does not run
  startup,    \* main: how the startup check of the tool ended
  reset,      \* main: whether the log has been reset
  error_types,\* main: the dict of the failure analysis
  report,     \* main: whether the report has been written
  exited,     \* main: the exit status of the run, once it has ended
  si,         \* verification-section pass: the index of the next line
  sst,        \* verification-section pass: cleaned_lines, skip_verification
  ttext,      \* top finder: the text of the file, a list of lines
  tbase,      \* top finder: the base name of the file
  tvhdl,      \* top finder: fn.endswith('.vhdl')
  ttop,       \* top finder: what it returned
  jobs,       \* log writers: per worker, the file and what the tool printed
  chunks,     \* log writers: yosys_output.log, the appends in their order
  wpc,        \* log writers: per worker, how far its entry is written
  breakdown   \* log writers: the failure analysis of the log

dvars == <<files, future, frame, fs, log, results, yielded, dpc>>
evars == <<etext, evhdl, eres, epc>>
nvars == <<nname, nout>>
pvars == <<src, rout, gi, gst, hst>>
mvars == <<mpc, startup, reset, error_types, report, exited>>
svars == <<si, sst>>
tvars == <<ttext, tbase, tvhdl, ttop>>
lvars == <<jobs, chunks, wpc, breakdown>>
vars == <<files, future, frame, fs, log, results, yielded, dpc,
          etext, evhdl, eres, epc, nname, nout, src, rout, gi, gst, hst,
          mpc, startup, reset, error_types, report, exited,
          si, sst, ttext, tbase, tvhdl, ttop, jobs, chunks, wpc, breakdown>>

\* the analysis has not run; what it leaves in error_types
NoBreakdown == [done |-> FALSE, error_types |-> <<>>]
Breakdown(d) == [done |-> TRUE, error_types |-> d]

\* the parts of the program that a specification leaves out do nothing
DriverOff ==
  /\ files = <<>>
  /\ future = <<>>
  /\ frame = [w \in 1..MAX_WORKERS |-> None]
  /\ fs = {}
  /\ log = <<>>
  /\ results = <<>>
  /\ yielded = {}
  /\ dpc = "returned"
ExtractOff ==
  /\ etext = NoOutput
  /\ evhdl = FALSE
  /\ eres = None
  /\ epc = "idle"
NameOff ==
  /\ nname = <<>>
  /\ nout = <<>>
RewriteOff ==
  /\ src = <<EmptyLine>>
  /\ rout = Pending
  /\ gi = 1
  /\ gst = GuardStart
  /\ hst = HoistStart
MainOff ==
  /\ mpc = "idle"
  /\ startup = "pending"
  /\ reset = "pending"
  /\ error_types = <<>>
  /\ report = "none"
  /\ exited = "no"
SectionOff ==
  /\ si = 1
  /\ sst = SectionStart
TopOff ==
  /\ ttext = <<>>
  /\ tbase = <<>>
  /\ tvhdl = FALSE
  /\ ttop = NoTop
LogOff ==
  /\ jobs = <<>>
  /\ chunks = <<>>
  /\ wpc = <<>>
  /\ breakdown = NoBreakdown

Tasks == DOMAIN files
Workers == 1..MAX_WORKERS

\* a future that has been submitted and not started
NewFuture == [state |-> "PENDING", raising |-> FALSE, ret |-> <<0, 0>>]

\* a worker process that runs no call
Idle ==
  [ task |-> 0, pc |-> "idle", fn |-> None, preprocessed |-> "no",
    preprocessed_file |-> None, yosyscmd |-> None, ioerror |-> FALSE,
    outcome |-> "none", result |-> None, ret |-> <<0, 0>>,
    raising |-> FALSE, warned |-> {} ]

\* texts the tool prints on its error stream when it rejects a file
StderrTexts ==
  { "ERROR: syntax error, unexpected TOK_AUTOMATIC",
    "ERROR: Can't open include file",
    "ERROR: syntax error, unexpected '['",
    "ERROR: syntax error",
    "ERROR: Module not found" }

\* tool results of a rejected file: no statistics on the output stream
RejectResults ==
  {[returncode |-> 1, stdout |-> NoOutput, stderr |-> e] : e \in StderrTexts}

\* the tool results a call of yosys() can see: in a run of main the
\* rejections are tried as well
RunResults ==
  IF mpc = "idle" THEN ToolResults ELSE ToolResults \cup RejectResults

\* how an invocation can end: a run of main is followed to its exit
\* status, which an interrupt of the run takes out of main's hands
RunOutcomes ==
  IF mpc = "idle" THEN Outcomes ELSE Outcomes \ {"interrupt"}

(***************************************************************************)
(* yosys(fn)                                                               *)
(***************************************************************************)
\* variant of sv_command: the command always reads the preprocessed file
sv_command_no_fallback(pid, fn, preprocessed_ok) ==
  [reader |-> "read_verilog -sv", path |-> PreprocessedFile(pid, fn)]

\* the command script yosys() builds for a SystemVerilog file
sv_command(pid, fn, preprocessed_ok) ==
  IF preprocessed_ok
  THEN [reader |-> "read_verilog -sv", path |-> PreprocessedFile(pid, fn)]
  ELSE [reader |-> "read -sv", path |-> fn]

\* variant of yosys_setup: the command script is written before the entity
\* name is looked at
yosys_setup_script_first(pid, task, fn, top, preprocessed_ok, ioerr) ==
  LET c0 == [Idle EXCEPT !.task = task, !.fn = fn]
      failed(c) == [c EXCEPT !.ioerror = TRUE, !.ret = <<0, 0>>,
                             !.pc = "finally"]
      script(c, created) ==
        IF ioerr = "script"
        THEN [c |-> failed(c), created |-> created]
        ELSE [c |-> [c EXCEPT !.pc = "run"],
              created |-> created \cup {TempFile(pid)}]
  IN  IF IsVhdl(fn)
      THEN IF ~top
           THEN [c |-> [c0 EXCEPT !.ret = <<0, 0>>, !.pc = "finally"],
                 created |-> {TempFile(pid)}]
           ELSE script([c0 EXCEPT !.yosyscmd =
                          [reader |-> "ghdl --std=08 -fsynopsys", path |-> fn]],
                       {})
      ELSE IF preprocessed_ok
           THEN LET pf == PreprocessedFile(pid, fn)
                    c1 == [c0 EXCEPT !.preprocessed = "ok",
                                     !.preprocessed_file = pf]
                IN  IF ioerr = "preprocessed"
                    THEN [c |-> failed(c1), created |-> {}]
                    ELSE script([c1 EXCEPT !.yosyscmd =
                                   sv_command(pid, fn, TRUE)],
                                {pf})
           ELSE script([c0 EXCEPT !.preprocessed = "failed",
                                  !.yosyscmd = sv_command(pid, fn, FALSE)],
                       {})

\* yosys(), from its first line to the write of the command script, in the
\* worker process pid.  top: get_top_entity found a name (VHDL);
\* preprocessed_ok: preprocess_sv_file returned text, not None; ioerr: the
\* open() or write() that raises, if any.  Gives the locals and the files
\* the call has created.
yosys_setup(pid, task, fn, top, preprocessed_ok, ioerr) ==
  LET c0 == [Idle EXCEPT !.task = task, !.fn = fn]
      failed(c) == [c EXCEPT !.ioerror = TRUE, !.ret = <<0, 0>>,
                             !.pc = "finally"]
      script(c, created) ==
        IF ioerr = "script"
        THEN [c |-> failed(c), created |-> created]
        ELSE [c |-> [c EXCEPT !.pc = "run"],
              created |-> created \cup {TempFile(pid)}]
  IN  IF IsVhdl(fn)
      THEN IF ~top
           THEN [c |-> [c0 EXCEPT !.ret = <<0, 0>>, !.pc = "finally"],
                 created |-> {}]
           ELSE script([c0 EXCEPT !.yosyscmd =
                          [reader |-> "ghdl --std=08 -fsynopsys", path |-> fn]],
                       {})
      ELSE IF preprocessed_ok
           THEN LET pf == PreprocessedFile(pid, fn)
                    c1 == [c0 EXCEPT !.preprocessed = "ok",
                                     !.preprocessed_file = pf]
                IN  IF ioerr = "preprocessed"
                    THEN [c |-> failed(c1), created |-> {}]
                    ELSE script([c1 EXCEPT !.yosyscmd =
                                   sv_command(pid, fn, TRUE)],
                                {pf})
           ELSE script([c0 EXCEPT !.preprocessed = "failed",
                                  !.yosyscmd = sv_command(pid, fn, FALSE)],
                       {})

\* variant of yosys_parse: a non-zero exit status skips the parse section
yosys_parse_checked(result, vhdl) ==
  LET st == Parse(result.stdout, vhdl)
  IN  IF st.raised \/ result.returncode # 0 THEN <<0, 0>>
      ELSE <<st.wire_bits, st.cells>>

\* the pair yosys() returns once the tool has exited: the parse section and
\* the handler "except Exception" around it
yosys_parse(result, vhdl) ==
  LET st == Parse(result.stdout, vhdl)
  IN  IF st.raised THEN <<0, 0>> ELSE <<st.wire_bits, st.cells>>

\* variant of yosys_invoke: TimeoutExpired has no handler
yosys_invoke_no_timeout_handler(c, outcome, result) ==
  CASE outcome = "exit" ->
         [c EXCEPT !.outcome = outcome, !.result = result,
                   !.ret = yosys_parse(result, IsVhdl(c.fn)), !.pc = "finally"]
    [] outcome \in {"notfound", "error"} ->
         [c EXCEPT !.outcome = outcome, !.ret = <<0, 0>>, !.pc = "finally"]
    [] outcome \in {"timeout", "interrupt"} ->
         [c EXCEPT !.outcome = outcome, !.raising = TRUE, !.pc = "finally"]

\* yosys(), from subprocess.run to the return statement it reaches
yosys_invoke(c, outcome, result) ==
  CASE outcome = "exit" ->
         [c EXCEPT !.outcome = outcome, !.result = result,
                   !.ret = yosys_parse(result, IsVhdl(c.fn)), !.pc = "finally"]
    [] outcome \in {"timeout", "notfound", "error"} ->
         [c EXCEPT !.outcome = outcome, !.ret = <<0, 0>>, !.pc = "finally"]
    [] outcome = "interrupt" ->
         [c EXCEPT !.outcome = outcome, !.raising = TRUE, !.pc = "finally"]

\* the entry yosys() appends to yosys_output.log after the tool has exited
LogEntry(c) ==
  [ fn |-> c.fn, preprocessed_file |-> c.preprocessed_file,
    yosyscmd |-> c.yosyscmd, stdout |-> c.result.stdout,
    stderr |-> c.result.stderr ]

\* variant of yosys_finally: the files are removed after a tool exit only
yosys_finally_on_exit(pid, c, files_now, rm1, rm2) ==
  LET t == TempFile(pid)
      pf == c.preprocessed_file
      try1 == t \in files_now /\ c.outcome = "exit"
      try2 == pf # None /\ pf \in files_now /\ c.outcome = "exit"
      removed == (IF try1 /\ rm1 THEN {t} ELSE {})
                 \cup (IF try2 /\ rm2 THEN {pf} ELSE {})
      warned == (IF try1 /\ ~rm1 THEN {t} ELSE {})
                \cup (IF try2 /\ ~rm2 THEN {pf} ELSE {})
  IN  [c |-> [c EXCEPT !.warned = warned, !.pc = "return"],
       fs |-> files_now \ removed]

\* the finally block of yosys() in the worker process pid: rm1, rm2 tell
\* whether os.remove succeeds on the command script and on the preprocessed
\* file
yosys_finally(pid, c, files_now, rm1, rm2) ==
  LET t == TempFile(pid)
      pf == c.preprocessed_file
      try1 == t \in files_now
      try2 == pf # None /\ pf \in files_now
      removed == (IF try1 /\ rm1 THEN {t} ELSE {})
                 \cup (IF try2 /\ rm2 THEN {pf} ELSE {})
      warned == (IF try1 /\ ~rm1 THEN {t} ELSE {})
                \cup (IF try2 /\ ~rm2 THEN {pf} ELSE {})
  IN  [c |-> [c EXCEPT !.warned = warned, !.pc = "return"],
       fs |-> files_now \ removed]

\* a worker takes the next call off the queue and runs yosys() up to the
\* invocation of the tool or, when it does not get that far, to the end of
\* its finally block.  rm: os.remove works in the working directory.  The
\* processes are numbered from the one that takes the first call.
Setup(w) ==
  /\ dpc = "collect"
  /\ frame[w].pc = "idle"
  /\ \E i \in Tasks :
       /\ future[i].state = "PENDING"
       /\ \A j \in Tasks : future[j].state = "PENDING" => i <= j
       /\ i = 1 => w = 1
       /\ \E top \in BOOLEAN, ok \in BOOLEAN,
             ioerr \in {"none", "preprocessed", "script"},
             rm \in BOOLEAN :
            /\ IsVhdl(files[i]) => ok /\ ioerr # "preprocessed"
            /\ ~IsVhdl(files[i]) => top /\ (ioerr = "preprocessed" => ok)
            /\ LET s == yosys_setup(w, i, files[i], top, ok, ioerr)
                   r == yosys_finally(w, s.c, fs \cup s.created, rm, rm)
               IN  IF s.c.pc = "finally"
                   THEN /\ frame' = [frame EXCEPT ![w] = r.c]
                        /\ fs' = r.fs
                   ELSE /\ rm
                        /\ frame' = [frame EXCEPT ![w] = s.c]
                        /\ fs' = fs \cup s.created
       /\ future' = [future EXCEPT ![i].state = "RUNNING"]
  /\ UNCHANGED <<files, log, results, yielded, dpc, evars, nvars, pvars, mvars,
                 svars, tvars, lvars>>

\* the tool run ends: the worker logs and parses what the tool printed, or
\* handles the exception, and runs the finally block
Invoke(w) ==
  /\ frame[w].pc = "run"
  /\ \E outcome \in RunOutcomes, result \in RunResults, rm \in BOOLEAN :
       LET c == yosys_invoke(frame[w], outcome, result)
           r == yosys_finally(w, c, fs, rm, rm)
       IN  /\ outcome # "exit" => result.returncode = 0
           /\ frame' = [frame EXCEPT ![w] = r.c]
           /\ fs' = r.fs
           /\ log' = IF outcome = "exit" THEN Append(log, LogEntry(c))
                     ELSE log
  /\ UNCHANGED <<files, future, results, yielded, dpc, evars, nvars, pvars,
                 mvars, svars, tvars, lvars>>

\* yosys() has returned or raised: the worker hands the outcome to the
\* future of the call and is idle again
Deliver(w) ==
  /\ frame[w].pc = "return"
  /\ future' = [future EXCEPT ![frame[w].task] =
                  [state |-> "FINISHED", raising |-> frame[w].raising,
                   ret |-> frame[w].ret]]
  /\ frame' = [frame EXCEPT ![w] = Idle]
  /\ UNCHANGED <<files, fs, log, results, yielded, dpc, evars, nvars,
                 pvars, mvars, svars, tvars, lvars>>

(***************************************************************************)
(* process_files(files)                                                    *)
(***************************************************************************)
\* variant of StoreResult: a future that raises leaves no entry
StoreResultDrop(res, file, raising, ret) ==
  IF raising THEN res ELSE (file :> ret) @@ res

\* variant of StoreResult: a future that raises zeroes every entry
StoreResultReset(res, file, raising, ret) ==
  IF raising
  THEN [f \in DOMAIN res \cup {file} |-> <<0, 0>>]
  ELSE (file :> ret) @@ res

\* results after the loop body of as_completed has run for one future:
\* raising tells whether future.result() raises, ret is what it returns
StoreResult(res, file, raising, ret) ==
  (file :> (IF raising THEN <<0, 0>> ELSE ret)) @@ res

\* variant of as_completed: the futures are waited for in the order of
\* their submission
in_submission_order(i) ==
  /\ i \notin yielded
  /\ future[i].state = "FINISHED"
  /\ \A j \in 1..(i - 1) : j \in yielded

\* as_completed yields a future once it has finished, whatever the state
\* of the others
as_completed(i) ==
  /\ i \notin yielded
  /\ future[i].state = "FINISHED"

\* one iteration of "for future in as_completed(future_to_file)"
Collect(i) ==
  /\ dpc = "collect"
  /\ as_completed(i)
  /\ results' = StoreResult(results, files[i], future[i].raising,
                            future[i].ret)
  /\ yielded' = yielded \cup {i}
  /\ UNCHANGED <<files, future, frame, fs, log, dpc, evars, nvars, pvars,
                 mvars, svars, tvars, lvars>>

\* every future has been yielded: the pool shuts down, process_files returns
Return ==
  /\ dpc = "collect"
  /\ yielded = Tasks
  /\ dpc' = "returned"
  /\ UNCHANGED <<files, future, frame, fs, log, results, yielded, evars,
                 nvars, pvars, mvars, svars, tvars, lvars>>

\* process_files has been called and has submitted every file
Init ==
  /\ files \in SeqsUpTo(Files, MaxFiles)
  /\ future = [i \in DOMAIN files |-> NewFuture]
  /\ frame = [w \in Workers |-> Idle]
  /\ fs = {}
  /\ log = <<>>
  /\ results = <<>>
  /\ yielded = {}
  /\ dpc = "collect"
  /\ etext = NoOutput
  /\ evhdl = FALSE
  /\ eres = Parse(NoOutput, FALSE)
  /\ epc = "idle"
  /\ NameOff
  /\ RewriteOff
  /\ MainOff
  /\ SectionOff
  /\ TopOff
  /\ LogOff

Next ==
  \/ \E w \in Workers : Setup(w)
  \/ \E w \in Workers : Invoke(w)
  \/ \E w \in Workers : Deliver(w)
  \/ \E i \in Tasks : Collect(i)
  \/ Return

Spec == Init /\ [][Next]_vars

\* process_files with the scheduling the code relies on: a worker process
\* that can take a call or hand back its outcome does so, and the loop of
\* process_files takes a finished future and returns after the last one.
\* Nothing is assumed here about how long a tool invocation lasts.
Scheduling ==
  /\ \A w \in Workers : WF_vars(Setup(w)) /\ WF_vars(Deliver(w))
  /\ \A i \in 1..MaxFiles : WF_vars(i \in Tasks /\ Collect(i))
  /\ WF_vars(Return)

SpecFair == Init /\ [][Next]_vars /\ Scheduling

(***************************************************************************)
(* The statistics extractor on its own                                     *)
(***************************************************************************)
\* the parse section of yosys() applied to a captured text
Extract ==
  /\ epc = "start"
  /\ eres' = Parse(etext, evhdl)
  /\ epc' = "done"
  /\ UNCHANGED <<etext, evhdl, dvars, nvars, pvars, mvars,
                 svars, tvars, lvars>>

InitExtract ==
  /\ files = <<>>
  /\ future = <<>>
  /\ frame = [w \in Workers |-> Idle]
  /\ fs = {}
  /\ log = <<>>
  /\ results = <<>>
  /\ yielded = {}
  /\ dpc = "returned"
  /\ etext \in Texts(MaxLines)
  /\ evhdl \in BOOLEAN
  /\ eres = Parse(NoOutput, FALSE)
  /\ epc = "start"
  /\ NameOff
  /\ RewriteOff
  /\ MainOff
  /\ SectionOff
  /\ TopOff
  /\ LogOff

NextExtract == Extract

SpecExtract == InitExtract /\ [][NextExtract]_vars

(***************************************************************************)
(* The name normalizer on its own                                          *)
(***************************************************************************)
\* prettify_name applied to a file name
Normalize ==
  /\ nout = <<>>
  /\ nout' = <<prettify_name(nname)>>
  /\ UNCHANGED <<nname, dvars, evars, pvars, mvars, svars, tvars, lvars>>

\* prettify_name applied to the label it returned
Renormalize ==
  /\ Len(nout) = 1
  /\ nout' = Append(nout, prettify_name(nout[1]))
  /\ UNCHANGED <<nname, dvars, evars, pvars, mvars, svars, tvars, lvars>>

InitName ==
  /\ nname \in Names(MaxFields)
  /\ nout = <<>>
  /\ DriverOff
  /\ ExtractOff
  /\ RewriteOff
  /\ MainOff
  /\ SectionOff
  /\ TopOff
  /\ LogOff

NextName == Normalize \/ Renormalize

SpecName == InitName /\ [][NextName]_vars

(***************************************************************************)
(* The source rewriter and its scanners on their own                       *)
(***************************************************************************)
\* preprocess_sv_file on a file: the rewritten text, or None when reading
\* the file raises
Preprocess ==
  /\ rout = Pending
  /\ \E readable \in BOOLEAN :
       rout' = IF readable THEN Returned(preprocess_sv_file(src)) ELSE ReturnedNone
  /\ UNCHANGED <<src, gi, gst, hst, dvars, evars, nvars, mvars,
                 svars, tvars, lvars>>

InitRewrite ==
  /\ src \in SrcTexts(SrcLines, MaxSrcLines)
  /\ rout = Pending
  /\ gi = 1
  /\ gst = GuardStart
  /\ hst = HoistStart
  /\ DriverOff
  /\ ExtractOff
  /\ NameOff
  /\ MainOff
  /\ SectionOff
  /\ TopOff
  /\ LogOff

NextRewrite == Preprocess

SpecRewrite == InitRewrite /\ [][NextRewrite]_vars

\* one iteration of the loop of the guarded-block pass
GuardStep ==
  /\ gi <= Len(src)
  /\ gst' = guard_step(gst, src[gi])
  /\ gi' = gi + 1
  /\ UNCHANGED <<src, rout, hst, dvars, evars, nvars, mvars,
                 svars, tvars, lvars>>

InitGuard ==
  /\ src \in SrcTexts(GuardLines, MaxGuardLines)
  /\ rout = Pending
  /\ gi = 1
  /\ gst = GuardStart
  /\ hst = HoistStart
  /\ DriverOff
  /\ ExtractOff
  /\ NameOff
  /\ MainOff
  /\ SectionOff
  /\ TopOff
  /\ LogOff

NextGuard == GuardStep

SpecGuard == InitGuard /\ [][NextGuard]_vars

\* one iteration of the outer loop of the hoisting scanner
HoistOuter ==
  /\ hst.i <= Len(src)
  /\ ~hst.inside
  /\ hst' = hoist_step(hst, src)
  /\ UNCHANGED <<src, rout, gi, gst, dvars, evars, nvars, mvars,
                 svars, tvars, lvars>>

\* one iteration of its inner loop, inside a clocked block
HoistInner ==
  /\ hst.i <= Len(src)
  /\ hst.inside
  /\ hst' = hoist_step(hst, src)
  /\ UNCHANGED <<src, rout, gi, gst, dvars, evars, nvars, mvars,
                 svars, tvars, lvars>>

InitHoist ==
  /\ src \in SrcTexts(HoistLines, MaxHoistLines)
  /\ rout = Pending
  /\ gi = 1
  /\ gst = GuardStart
  /\ hst = HoistStart
  /\ DriverOff
  /\ ExtractOff
  /\ NameOff
  /\ MainOff
  /\ SectionOff
  /\ TopOff
  /\ LogOff

NextHoist == HoistOuter \/ HoistInner

SpecHoist == InitHoist /\ [][NextHoist]_vars

\* the two scanners run to their ends on the same text, each at its own
\* pace
ScanLines == GuardLines \cup HoistLines

InitScan ==
  /\ src \in SrcTexts(ScanLines, MaxScanLines)
  /\ rout = Pending
  /\ gi = 1
  /\ gst = GuardStart
  /\ hst = HoistStart
  /\ DriverOff
  /\ ExtractOff
  /\ NameOff
  /\ MainOff
  /\ SectionOff
  /\ TopOff
  /\ LogOff

NextScan == GuardStep \/ HoistOuter \/ HoistInner

SpecScan == InitScan /\ [][NextScan]_vars

\* one iteration of the loop of the verification-section pass
SectionStep ==
  /\ si <= Len(src)
  /\ sst' = section_step(sst, src[si])
  /\ si' = si + 1
  /\ UNCHANGED <<src, rout, gi, gst, hst, dvars, evars, nvars, mvars, tvars,
                 lvars>>

InitSection ==
  /\ src \in SrcTexts(SectionLines, MaxSectionLines)
  /\ rout = Pending
  /\ gi = 1
  /\ gst = GuardStart
  /\ hst = HoistStart
  /\ si = 1
  /\ sst = SectionStart
  /\ DriverOff
  /\ ExtractOff
  /\ NameOff
  /\ MainOff
  /\ TopOff
  /\ LogOff

NextSection == SectionStep

SpecSection == InitSection /\ [][NextSection]_vars

\* yosys() looks for the top module of a SystemVerilog file (line 412)
GetTopModule ==
  /\ ~ttop.done
  /\ ~tvhdl
  /\ \E readable \in BOOLEAN : ttop' = get_top_module(ttext, tbase, readable)
  /\ UNCHANGED <<ttext, tbase, tvhdl, dvars, evars, nvars, pvars, mvars,
                 svars, lvars>>

\* yosys() looks for the top entity of a VHDL file (line 400)
GetTopEntity ==
  /\ ~ttop.done
  /\ tvhdl
  /\ \E readable \in BOOLEAN : ttop' = get_top_entity(ttext, readable)
  /\ UNCHANGED <<ttext, tbase, tvhdl, dvars, evars, nvars, pvars, mvars,
                 svars, lvars>>

InitTop ==
  /\ tvhdl \in BOOLEAN
  /\ ttext \in SrcTexts(IF tvhdl THEN EntityLines ELSE ModuleLines, MaxTopLines)
  /\ tbase = IF tvhdl THEN NameFPDiv ELSE NameFPADD
  /\ ttop = NoTop
  /\ DriverOff
  /\ ExtractOff
  /\ NameOff
  /\ RewriteOff
  /\ MainOff
  /\ SectionOff
  /\ LogOff

NextTop == GetTopModule \/ GetTopEntity

SpecTop == InitTop /\ [][NextTop]_vars

(***************************************************************************)
(* main()                                                                  *)
(***************************************************************************)
\* the two files of Files
SvFile == CHOOSE f \in Files : ~IsVhdl(f)
VhdlFile == CHOOSE f \in Files : IsVhdl(f)

\* what the glob patterns of lines 668-700 can find: nothing, one file, or
\* the SystemVerilog file followed by the VHDL file
GlobResults == {<<>>, <<SvFile>>, <<VhdlFile>>, <<SvFile, VhdlFile>>}

\* phrase in stderr, for the phrases of lines 741-747
InStderr(phrase, stderr) ==
  phrase \in
    CASE stderr = "ERROR: syntax error, unexpected TOK_AUTOMATIC" ->
           {"TOK_AUTOMATIC", "syntax error"}
      [] stderr = "ERROR: Can't open include file" ->
           {"Can't open include file"}
      [] stderr = "ERROR: syntax error, unexpected '['" ->
           {"syntax error", "unexpected '['"}
      [] stderr = "ERROR: syntax error" -> {"syntax error"}
      [] OTHER -> {}

\* lines 741-748: the keys the if/elif chain increments for one stderr
\* text, one key or none
ErrorTypeOf(stderr) ==
  IF InStderr("TOK_AUTOMATIC", stderr) THEN {"automatic keyword"}
  ELSE IF InStderr("Can't open include file", stderr) THEN {"missing include"}
  ELSE IF InStderr("syntax error", stderr) /\ InStderr("unexpected '['", stderr)
  THEN {"unpacked arrays"}
  ELSE IF InStderr("syntax error", stderr) THEN {"other syntax errors"}
  ELSE {}

\* lines 714-718: the files whose cell count is not positive
failed_files(res) == {fn \in DOMAIN res : ~(res[fn][2] > 0)}

\* lines 737-738: re.search finds the first entry of the file in the log;
\* 0 if there is none
FirstEntry(lg, fn) ==
  LET hits == {k \in DOMAIN lg : lg[k].fn = fn}
  IN IF hits = {} THEN 0 ELSE Min(hits)

\* variant of analyze_log: the read of the log has no try block around it
analyze_log_unguarded(res, lg, unreadable) ==
  LET failed == failed_files(res)
      typed == {fn \in failed :
                  /\ FirstEntry(lg, fn) # 0
                  /\ ErrorTypeOf(lg[FirstEntry(lg, fn)].stderr) # {}}
      typeof(fn) == CHOOSE c \in ErrorTypeOf(lg[FirstEntry(lg, fn)].stderr) : TRUE
      keys == {typeof(fn) : fn \in typed}
  IN [ escaped |-> unreadable,
       error_types |->
         IF unreadable THEN <<>>
         ELSE [c \in keys |-> Cardinality({fn \in typed : typeof(fn) = c})] ]

\* lines 724-750: the failure analysis.  unreadable: opening the log
\* raises, which the try block of line 731 contains.  Gives the dict
\* error_types and whether an exception leaves the analysis.
analyze_log(res, lg, unreadable) ==
  LET failed == failed_files(res)
      typed == {fn \in failed :
                  /\ FirstEntry(lg, fn) # 0
                  /\ ErrorTypeOf(lg[FirstEntry(lg, fn)].stderr) # {}}
      typeof(fn) == CHOOSE c \in ErrorTypeOf(lg[FirstEntry(lg, fn)].stderr) : TRUE
      keys == {typeof(fn) : fn \in typed}
  IN [ escaped |-> FALSE,
       error_types |->
         IF unreadable THEN <<>>
         ELSE [c \in keys |-> Cardinality({fn \in typed : typeof(fn) = c})] ]

\* an entry an earlier run has left in the log
StaleEntry ==
  [ fn |-> SvFile, preprocessed_file |-> None,
    yosyscmd |-> sv_command(1, SvFile, FALSE), stdout |-> NoOutput,
    stderr |-> "ERROR: syntax error, unexpected TOK_AUTOMATIC" ]

\* lines 637-654: the startup check of the tool.  It exits with status 0
\* (ok) or another status (nonzero), or subprocess.run raises
\* FileNotFoundError (notfound) or another exception (error); all but the
\* first end the run with sys.exit(1)
MainCheck ==
  /\ mpc = "check"
  /\ \E outcome \in {"ok", "nonzero", "notfound", "error"} :
       /\ startup' = outcome
       /\ mpc' = IF outcome = "ok" THEN "reset" ELSE "done"
       /\ exited' = IF outcome = "ok" THEN exited ELSE "nonzero"
  /\ UNCHANGED <<reset, error_types, report, dvars, evars, nvars, pvars,
                 svars, tvars, lvars>>

\* lines 656-659: the log is opened for writing and gets its header; an
\* exception goes to the handler of line 773, which ends the run with
\* sys.exit(1)
MainReset ==
  /\ mpc = "reset"
  /\ \E raises \in BOOLEAN :
       IF raises
       THEN /\ reset' = "raised"
            /\ mpc' = "done"
            /\ exited' = "nonzero"
            /\ log' = log
       ELSE /\ reset' = "done"
            /\ mpc' = "glob"
            /\ exited' = exited
            /\ log' = <<>>
  /\ UNCHANGED <<files, future, frame, fs, results, yielded, dpc, startup,
                 error_types, report, evars, nvars, pvars,
                 svars, tvars, lvars>>

\* lines 668-709: the files are collected; with none main returns, else it
\* calls process_files, which submits every file
MainGlob ==
  /\ mpc = "glob"
  /\ \E fns \in GlobResults :
       IF fns = <<>>
       THEN /\ mpc' = "done"
            /\ exited' = "zero"
            /\ UNCHANGED <<files, future, dpc>>
       ELSE /\ mpc' = "process"
            /\ exited' = exited
            /\ files' = fns
            /\ future' = [i \in DOMAIN fns |-> NewFuture]
            /\ dpc' = "collect"
  /\ UNCHANGED <<frame, fs, log, results, yielded, startup, reset,
                 error_types, report, evars, nvars, pvars,
                 svars, tvars, lvars>>

\* lines 711-758: process_files has returned; the files are split into
\* successful and failed ones and the failures are analyzed from the log
MainClassify ==
  /\ mpc = "process"
  /\ dpc = "returned"
  /\ \E unreadable \in BOOLEAN :
       LET a == analyze_log(results, log, unreadable)
       IN /\ error_types' = a.error_types
          /\ mpc' = IF a.escaped THEN "done" ELSE "report"
          /\ exited' = IF a.escaped THEN "nonzero" ELSE exited
  /\ UNCHANGED <<startup, reset, report, dvars, evars, nvars, pvars,
                 svars, tvars, lvars>>

\* lines 760-775: create_xml_report writes the report, or raises, which
\* the handler of line 773 turns into sys.exit(1); main returns
MainReport ==
  /\ mpc = "report"
  /\ \E raises \in BOOLEAN :
       /\ report' = IF raises THEN "raised" ELSE "written"
       /\ exited' = IF raises THEN "nonzero" ELSE "zero"
  /\ mpc' = "done"
  /\ UNCHANGED <<startup, reset, error_types, dvars, evars, nvars, pvars,
                 svars, tvars, lvars>>

\* main is called: the log may hold the entries of an earlier run
InitMain ==
  /\ files = <<>>
  /\ future = <<>>
  /\ frame = [w \in Workers |-> Idle]
  /\ fs = {}
  /\ log \in {<<>>, <<StaleEntry>>}
  /\ results = <<>>
  /\ yielded = {}
  /\ dpc = "returned"
  /\ mpc = "check"
  /\ startup = "pending"
  /\ reset = "pending"
  /\ error_types = <<>>
  /\ report = "none"
  /\ exited = "no"
  /\ ExtractOff
  /\ NameOff
  /\ RewriteOff
  /\ SectionOff
  /\ TopOff
  /\ LogOff

NextMain ==
  \/ MainCheck
  \/ MainReset
  \/ MainGlob
  \/ \E w \in Workers : Setup(w)
  \/ \E w \in Workers : Invoke(w)
  \/ \E w \in Workers : Deliver(w)
  \/ \E i \in Tasks : Collect(i)
  \/ Return
  \/ MainClassify
  \/ MainReport

SpecMain == InitMain /\ [][NextMain]_vars

(***************************************************************************)
(* The appends to yosys_output.log and the analysis of what they leave     *)
(***************************************************************************)
\* what one worker has to log: the file, whether its cell count is 0, the
\* error stream of the tool, and whether the output stream of the tool is
\* longer than the buffer of the log file object
LogJobs(fn) ==
  {[fn |-> fn, failed |-> TRUE, stderr |-> e, big |-> b] :
     e \in StderrTexts, b \in BOOLEAN}
    \cup {[fn |-> fn, failed |-> FALSE, stderr |-> "", big |-> b] :
            b \in BOOLEAN}

\* lines 465-476: what one append puts at the end of the log.  The writes
\* of an entry are buffered: they reach the file in one append when the
\* with block is left, unless the output stream overflows the buffer; then
\* everything up to the output stream is appended at line 472 ("head") and
\* the rest, from "Yosys stderr:" on, when the block is left ("tail").
Chunk(job, part) ==
  [ header |-> IF part \in {"whole", "head"} THEN <<job.fn>> ELSE <<>>,
    has_stderr |-> part \in {"whole", "tail"},
    stderr |-> IF part \in {"whole", "tail"} THEN job.stderr ELSE "" ]

\* line 736: the capture group of the pattern
\*   === Processing <fn> ===.*?Yosys stderr:\n(.*?)(?=\n===|\Z)
\* searched in the log: the error streams that lie between the first
\* "Yosys stderr:" after the first header of fn and the next header or the
\* end of the log; found is FALSE when re.search gives None
Captured(lg, fn) ==
  LET heads == {k \in DOMAIN lg : lg[k].header = <<fn>>}
      h == Min(heads)
      starts == {k \in h..Len(lg) : lg[k].has_stderr}
      b == Min(starts)
      stops == {k \in (b + 1)..Len(lg) : lg[k].header # <<>>}
      e == IF stops = {} THEN Len(lg) ELSE Min(stops) - 1
  IN IF heads = {} \/ starts = {}
     THEN [found |-> FALSE, parts |-> <<>>]
     ELSE [found |-> TRUE, parts |-> [k \in 1..(e - b + 1) |-> lg[b + k - 1].stderr]]

\* phrase in stderr, for a capture of several error streams
InCaptured(phrase, parts) ==
  \E k \in DOMAIN parts : InStderr(phrase, parts[k])

\* lines 741-748: the key the if/elif chain increments for a capture, one
\* key or none
ErrorTypeOfCaptured(parts) ==
  IF InCaptured("TOK_AUTOMATIC", parts) THEN {"automatic keyword"}
  ELSE IF InCaptured("Can't open include file", parts) THEN {"missing include"}
  ELSE IF InCaptured("syntax error", parts) /\ InCaptured("unexpected '['", parts)
  THEN {"unpacked arrays"}
  ELSE IF InCaptured("syntax error", parts) THEN {"other syntax errors"}
  ELSE {}

\* lines 727-748: error_types for the failed files and the log
analyze_chunks(failed, lg) ==
  LET typeset(fn) == IF Captured(lg, fn).found
                     THEN ErrorTypeOfCaptured(Captured(lg, fn).parts)
                     ELSE {}
      keys == UNION {typeset(fn) : fn \in failed}
  IN [c \in keys |-> Cardinality({fn \in failed : c \in typeset(fn)})]

\* a worker whose tool has exited appends its entry in one piece
AppendWhole(w) ==
  /\ wpc[w] = "start"
  /\ ~jobs[w].big
  /\ chunks' = Append(chunks, Chunk(jobs[w], "whole"))
  /\ wpc' = [wpc EXCEPT ![w] = "done"]
  /\ UNCHANGED <<jobs, breakdown, dvars, evars, nvars, pvars, mvars, svars,
                 tvars>>

\* the buffer overflows at the write of the output stream
AppendHead(w) ==
  /\ wpc[w] = "start"
  /\ jobs[w].big
  /\ chunks' = Append(chunks, Chunk(jobs[w], "head"))
  /\ wpc' = [wpc EXCEPT ![w] = "stdout written"]
  /\ UNCHANGED <<jobs, breakdown, dvars, evars, nvars, pvars, mvars, svars,
                 tvars>>

\* the with block is left and the rest of the entry is appended
AppendTail(w) ==
  /\ wpc[w] = "stdout written"
  /\ chunks' = Append(chunks, Chunk(jobs[w], "tail"))
  /\ wpc' = [wpc EXCEPT ![w] = "done"]
  /\ UNCHANGED <<jobs, breakdown, dvars, evars, nvars, pvars, mvars, svars,
                 tvars>>

\* the workers are done and main analyses the log for the failed files
AnalyzeLog ==
  /\ \A w \in Workers : wpc[w] = "done"
  /\ ~breakdown.done
  /\ breakdown' =
       Breakdown(analyze_chunks({jobs[w].fn : w \in {v \in Workers : jobs[v].failed}},
                                chunks))
  /\ UNCHANGED <<jobs, chunks, wpc, dvars, evars, nvars, pvars, mvars, svars,
                 tvars>>

\* the log has been reset, and each of two workers has run the tool on a
\* file of its own
InitLog ==
  /\ jobs \in [Workers -> LogJobs(SvFile) \cup LogJobs(VhdlFile)]
  /\ jobs[1].fn = SvFile
  /\ jobs[2].fn = VhdlFile
  /\ chunks = <<>>
  /\ wpc = [w \in Workers |-> "start"]
  /\ breakdown = NoBreakdown
  /\ DriverOff
  /\ ExtractOff
  /\ NameOff
  /\ RewriteOff
  /\ MainOff
  /\ SectionOff
  /\ TopOff

NextLog ==
  \/ \E w \in Workers : AppendWhole(w)
  \/ \E w \in Workers : AppendHead(w)
  \/ \E w \in Workers : AppendTail(w)
  \/ AnalyzeLog

SpecLog == InitLog /\ [][NextLog]_vars

(***************************************************************************)
(* Properties of process_files() and yosys()                               *)
(***************************************************************************)
\* the set of files of the batch
FileSet == {files[i] : i \in Tasks}

\* the entry process_files stores for a finished future
Entry(i) == IF future[i].raising THEN <<0, 0>> ELSE future[i].ret

\* the pair a call must return after what happened to its own invocation
OwnPair(c) ==
  IF c.outcome = "exit"
  THEN LET st == Parse(c.result.stdout, IsVhdl(c.fn))
       IN  <<st.wire_bits, st.cells>>
  ELSE <<0, 0>>

\* the temporary files a call in worker w names
OwnTemp(w) ==
  {TempFile(w)} \cup (IF frame[w].preprocessed_file = None THEN {}
                      ELSE {frame[w].preprocessed_file})

Returning(w) == frame[w].pc = "return"

C3_InvocationErrorsContained ==
  \A w \in Workers :
    (Returning(w) /\ (frame[w].outcome \in {"timeout", "notfound", "error"}
                      \/ frame[w].ioerror)) =>
      /\ frame[w].ret = <<0, 0>>
      /\ ~frame[w].raising
      /\ \A v \in Workers \ {w} :
           (Returning(v) /\ ~frame[v].raising /\ ~frame[v].ioerror) =>
             frame[v].ret = OwnPair(frame[v])

C3_Witness ==
  \E w, v \in Workers :
    /\ Returning(w) /\ frame[w].outcome = "timeout"
    /\ Returning(v) /\ frame[v].outcome = "exit"
    /\ frame[v].ret # <<0, 0>>

\* C4: when yosys() returns, the temporary files it names that still exist
\* are exactly those whose removal failed and was logged, so none exists
\* when removal succeeds; the returned pair is the one of the invocation
\* whether or not a removal failed.
C4_TemporariesRemoved ==
  \A w \in Workers :
    Returning(w) =>
      /\ OwnTemp(w) \cap fs = frame[w].warned
      /\ (~frame[w].raising /\ ~frame[w].ioerror) =>
           frame[w].ret = OwnPair(frame[w])

C4_Witness ==
  \E w \in Workers :
    /\ Returning(w)
    /\ frame[w].outcome = "timeout"
    /\ frame[w].preprocessed = "ok"
    /\ frame[w].warned = {}
    /\ OwnTemp(w) \cap fs = {}

\* C5: after the tool exits with a non-zero status, yosys() returns the
\* pair extracted from the captured standard output.
C5_NonZeroExitStillParsed ==
  \A w \in Workers :
    (Returning(w) /\ frame[w].outcome = "exit"
       /\ frame[w].result.returncode # 0) =>
      LET st == Parse(frame[w].result.stdout, IsVhdl(frame[w].fn))
      IN  frame[w].ret = <<st.wire_bits, st.cells>>

C5_Witness ==
  \E w \in Workers :
    /\ Returning(w)
    /\ frame[w].outcome = "exit"
    /\ frame[w].result.returncode = 1
    /\ frame[w].ret # <<0, 0>>

\* C6: when preprocess_sv_file fails, the call names no preprocessed file
\* and creates none, its command script reads the original path, and the
\* tool is invoked unless the command script itself could not be written.
C6_Step ==
  \A w \in Workers :
    frame'[w].preprocessed = "failed" =>
      /\ frame'[w].preprocessed_file = None
      /\ frame'[w].yosyscmd = [reader |-> "read -sv", path |-> frame'[w].fn]
      /\ frame'[w].pc = "run" \/ frame'[w].ioerror
           \/ frame'[w].outcome # "none"
      /\ frame[w].pc = "idle" => fs' \ fs \subseteq {TempFile(w)}

C6_PreprocessFailureFallsBack == [][C6_Step]_vars

C6_Witness ==
  \E w \in Workers :
    /\ Returning(w)
    /\ frame[w].preprocessed = "failed"
    /\ frame[w].outcome = "exit"
    /\ frame[w].ret # <<0, 0>>

(***************************************************************************)
(* Properties of the statistics extractor                                  *)
(***************************************************************************)
Extracted == epc = "done"

\* the lines of the examples
OldCells52 == <<NC, WS, Num(<<5, 2>>)>>
NewCells48 == <<WS, Num(<<4, 8>>), WS, CE>>
Bare48Cells == <<Num(<<4, 8>>), WS, CE>>
Marker == <<Num(<<3>>), X, WS, PS>>

\* a line that holds a wire-bits count in the old or the new format
WireLine(line) ==
  \/ Contains(line, "Number of wire bits:") /\ SearchDigits(line) # 0
  \/ SearchNumWord(line, "wire bits") # 0 /\ ~ContainsNumberOf(line)

\* a line that holds a cell count in the old or the new format
CellLine(line) ==
  \/ Contains(line, "Number of cells:") /\ SearchDigits(line) # 0
  \/ SearchCellsLine(line)

\* the number on such a line: the first run of digits of a
\* "Number of ...:" line, the digits before the word otherwise
WireNumber(line) ==
  IF Contains(line, "Number of wire bits:")
  THEN int(line[SearchDigits(line)].d)
  ELSE int(line[SearchNumWord(line, "wire bits")].d)

CellNumber(line) ==
  IF Contains(line, "Number of cells:")
  THEN int(line[SearchDigits(line)].d)
  ELSE int(line[SearchNumWord(line, "cells")].d)

\* the number on the last line of text that satisfies Is, 0 without one
LastNumber(text, Is(_), Number(_)) ==
  LET hits == {i \in DOMAIN text : Is(text[i])}
  IN  IF hits = {} THEN 0 ELSE Number(text[Max(hits)])

\* line a occurs in text, line b occurs later, and no line after that b
\* holds a cell count
ThenLast(text, a, b) ==
  \E i, j \in DOMAIN text :
    /\ i < j
    /\ text[i] = a
    /\ text[j] = b
    /\ \A k \in DOMAIN text : k > j => ~CellLine(text[k])

\* C7 as stated: output with the line "Number of cells: 52" and later the
\* line "48 cells" (the last line with a cell count) gives cellCount 48.
C7_Original ==
  (Extracted /\ ~evhdl /\ ThenLast(etext, OldCells52, Bare48Cells)) =>
    eres.cells = 48

\* C7 amended: output with the line "Number of cells: 52" and later the
\* line "   48 cells", the count preceded by whitespace (the last line with
\* a cell count), gives cellCount 48; the line "48 cells" that starts with
\* the digits is not in the new format and leaves cellCount as it was.
C7_IndentedNewFormatOverrides ==
  (Extracted /\ ~evhdl) =>
    /\ ThenLast(etext, OldCells52, NewCells48) => eres.cells = 48
    /\ etext = <<OldCells52, Bare48Cells>> => eres.cells = 52

C7_Witness ==
  /\ Extracted /\ ~evhdl
  /\ etext = <<OldCells52, NewCells48>>
  /\ eres.cells = 48

\* C8 as stated: wireBitCount is the number on the last line in either
\* wire-bits format and cellCount is the number on the last line in either
\* cells format, each independently of the other metric.
C8_Original ==
  (Extracted /\ ~evhdl) =>
    /\ eres.wire_bits = LastNumber(etext, WireLine, WireNumber)
    /\ eres.cells = LastNumber(etext, CellLine, CellNumber)

\* a line the cells branches of the loop get to see: the wire-bits formats
\* are tried first, and a line with "Number of wire bits:" stops there
CellLineReached(line) ==
  CellLine(line) /\ ~Contains(line, "Number of wire bits:")

\* C8 amended: wireBitCount is the number on the last line in either
\* wire-bits format; cellCount is the number on the last line in either
\* cells format that does not also hold "Number of wire bits:".
C8_LastMatchWins ==
  (Extracted /\ ~evhdl) =>
    /\ eres.wire_bits = LastNumber(etext, WireLine, WireNumber)
    /\ eres.cells = LastNumber(etext, CellLineReached, CellNumber)

C8_Witness ==
  /\ Extracted /\ ~evhdl
  /\ Len(etext) = 4
  /\ WireLine(etext[1]) /\ CellLineReached(etext[2])
  /\ WireLine(etext[3]) /\ CellLineReached(etext[4])
  /\ WireNumber(etext[1]) # WireNumber(etext[3])
  /\ CellNumber(etext[2]) # CellNumber(etext[4])
  /\ eres.wire_bits = WireNumber(etext[3])
  /\ eres.cells = CellNumber(etext[4])

\* a "Number of cells:" line of the VHDL path: optional whitespace, the
\* label, optional whitespace, an integer
NumberOfCellsLine(line) ==
  LET l == IF line # <<>> /\ line[1] = WS THEN Tail(line) ELSE line
      r == IF Len(l) >= 2 /\ l[2] = WS THEN Tail(Tail(l)) ELSE Tail(l)
  IN  /\ l # <<>> /\ l[1] = NC
      /\ r # <<>> /\ r[1].k = "num"

NumberOfCells(line) == (CHOOSE t \in {line[i] : i \in DOMAIN line} :
                          t.k = "num").d

RECURSIVE SumOver(_, _)
SumOver(text, I) ==
  IF I = {} THEN 0
  ELSE LET i == CHOOSE x \in I : TRUE
       IN  int(NumberOfCells(text[i])) + SumOver(text, I \ {i})

\* C9: for VHDL output, the cell count is the sum of the integers on the
\* "Number of cells:" lines at or after the last "Printing statistics."
\* line; lines before it add nothing, and without a marker the count is 0.
C9_SumAfterLastMarker ==
  (Extracted /\ evhdl) =>
    LET marks == {i \in DOMAIN etext : Contains(etext[i], "Printing statistics.")}
        counted == {i \in DOMAIN etext :
                      /\ marks # {}
                      /\ \A m \in marks : i >= m
                      /\ NumberOfCellsLine(etext[i])}
    IN  eres.cells = SumOver(etext, counted)

C9_Witness ==
  /\ Extracted /\ evhdl
  /\ etext = <<Marker, OldCells52, Marker, OldCells52>>
  /\ eres.cells = 52

\* C10: extraction raises nothing on any text, both numbers are
\* non-negative integers, and a metric no line of the text holds is 0.
C10_NeverRaisesDefaultsZero ==
  Extracted =>
    /\ ~eres.raised
    /\ eres.wire_bits \in Nat
    /\ eres.cells \in Nat
    /\ (evhdl \/ \A i \in DOMAIN etext : ~WireLine(etext[i])) =>
         eres.wire_bits = 0
    /\ (~evhdl /\ \A i \in DOMAIN etext : ~CellLine(etext[i])) =>
         eres.cells = 0
    /\ (evhdl /\ \A i \in DOMAIN etext : ~NumberOfCellsLine(etext[i])) =>
         eres.cells = 0

C10_Witness ==
  /\ Extracted /\ ~evhdl
  /\ etext = << <<WS, NC>>, <<WS, Num(<<2>>), WS, CE, WS, X>>, <<>> >>
  /\ eres = [wire_bits |-> 0, cells |-> 0, raised |-> FALSE]

(***************************************************************************)
(* Properties of prettify_name()                                           *)
(***************************************************************************)
\* the parses of a file name as FP<OP>_<e>_<m> followed by an optional
\* extension: <OP> a non-empty word, <e> and <m> non-empty digit strings
HardFloatParses(n) ==
  LET stems == {SubSeq(n, 1, Len(n) - Len(x)) :
                  x \in {y \in NameExts : Len(y) <= Len(n) /\
                           SubSeq(n, Len(n) - Len(y) + 1, Len(n)) = y}}
      word(t) == t # <<>> /\ \A i \in DOMAIN t : IsWord(t[i])
      digits(t) == t # <<>> /\ \A i \in DOMAIN t : IsDigit(t[i])
  IN UNION { { [op |-> SubSeq(st, 3, i - 1), e |-> SubSeq(st, i + 1, j - 1),
                m |-> SubSeq(st, j + 1, Len(st))] :
               <<i, j>> \in {p \in (DOMAIN st) \X (DOMAIN st) :
                  /\ p[1] < p[2]
                  /\ st[p[1]] = "_" /\ st[p[2]] = "_"
                  /\ word(SubSeq(st, 3, p[1] - 1))
                  /\ digits(SubSeq(st, p[1] + 1, p[2] - 1))
                  /\ digits(SubSeq(st, p[2] + 1, Len(st)))} } :
           st \in {t \in stems : startswith(t, <<"F", "P">>)} }

\* the parses of a file name as FP_<op>_<bits>_<n> or FP_<op>_<bits>_<n>_<k>
OpenFloatParses(n) ==
  LET word(t) == t # <<>> /\ \A i \in DOMAIN t : IsWord(t[i])
      digits(t) == t # <<>> /\ \A i \in DOMAIN t : IsDigit(t[i])
      us == {i \in DOMAIN n : n[i] = "_"}
      two == { [op |-> SubSeq(n, 4, p[1] - 1), bits |-> SubSeq(n, p[1] + 1, p[2] - 1)] :
                 p \in {q \in us \X us :
                   /\ q[1] < q[2]
                   /\ word(SubSeq(n, 4, q[1] - 1))
                   /\ digits(SubSeq(n, q[1] + 1, q[2] - 1))
                   /\ digits(SubSeq(n, q[2] + 1, Len(n)))} }
      three == { [op |-> SubSeq(n, 4, p[1] - 1), bits |-> SubSeq(n, p[1] + 1, p[2] - 1)] :
                 p \in {q \in us \X us \X us :
                   /\ q[1] < q[2] /\ q[2] < q[3]
                   /\ word(SubSeq(n, 4, q[1] - 1))
                   /\ digits(SubSeq(n, q[1] + 1, q[2] - 1))
                   /\ digits(SubSeq(n, q[2] + 1, q[3] - 1))
                   /\ digits(SubSeq(n, q[3] + 1, Len(n)))} }
  IN IF startswith(n, <<"F", "P", "_">>) THEN two \cup three ELSE {}

\* the format table of the claim
FormatOf(e, m) ==
  IF <<e, m>> = <<<<"5">>, <<"1", "0">>>> THEN <<"F", "P", "1", "6">>
  ELSE IF <<e, m>> \in {<<<<"8">>, <<"2", "3">>>>, <<<<"8">>, <<"2", "4">>>>} THEN <<"F", "P", "3", "2">>
  ELSE IF <<e, m>> \in {<<<<"1", "1">>, <<"5", "2">>>>, <<<<"1", "1">>, <<"5", "3">>>>} THEN <<"F", "P", "6", "4">>
  ELSE <<"e">> \o e \o <<"_", "m">> \o m

\* C11 as stated: prettify_name is idempotent: applying it to a label it
\* returned gives that label again, for every file name, the labels of the
\* Rial rules included.
C11_Idempotent ==
  Len(nout) = 2 => nout[2] = nout[1]

\* the Rial rule returns RialAdd_FP16, and a second application changes it
C11_Diverges ==
  /\ nname = <<"R", "i", "a", "l", "A", "d", "d", "F", "P", "1", "6">>
  /\ nout = <<<<"R", "i", "a", "l", "A", "d", "d", "_", "F", "P", "1", "6">>, <<"R", "i", "a", "l", "A", "d", "d", "_", "_", "F", "P", "1", "6">>>>

C13_OpenFloatLabel ==
  nout # <<>> =>
    \A p \in OpenFloatParses(nname) :
      p.bits \in {<<"1", "6">>, <<"3", "2">>, <<"6", "4">>} =>
        /\ nout[1] = <<"O", "p", "e", "n", "F", "l", "o", "a", "t">> \o p.op \o <<"_">> \o <<"F", "P">> \o p.bits
        /\ get_lib(nout[1]) = "openfloat"

\* FP_add_32_1 gets a HardFloat label, listed under HardFloat
C13_Diverges ==
  /\ nname = <<"F", "P", "_", "a", "d", "d", "_", "3", "2", "_", "1">>
  /\ nout # <<>>
  /\ nout[1] = <<"H", "a", "r", "d", "F", "l", "o", "a", "t", "_", "a", "d", "d", "_", "e", "3", "2", "_", "m", "1">>
  /\ get_lib(nout[1]) = "hardfloat"

(***************************************************************************)
(* Properties of preprocess_sv_file()                                      *)
(***************************************************************************)
\* The conditional-compilation structure of a text, read without the pass.
\* A line opens a block when it holds an ifdef or ifndef directive and
\* closes one when it holds an endif directive; a block is marker-guarded
\* when its opening directive tests the marker.
Opens(line) == Has(line, "^ifdef") \/ Has(line, "^ifndef")
Closes(line) == Has(line, "^endif")
OpensMarker(line) == IfdefMarker(line) \/ IfndefMarker(line)

\* the blocks open after the first n lines, innermost last; ok is FALSE
\* when a closing directive had no block to close, or its comment names the
\* marker and the block it closes is not marker-guarded, or the reverse
RECURSIVE OpenBlocks(_, _)
OpenBlocks(lines, n) ==
  IF n = 0 THEN [ok |-> TRUE, stack |-> <<>>]
  ELSE LET b == OpenBlocks(lines, n - 1)
           line == lines[n]
           top == b.stack[Len(b.stack)]
       IN IF Opens(line)
          THEN [b EXCEPT !.stack =
                  Append(@, IF OpensMarker(line) THEN "marker" ELSE "other")]
          ELSE IF Closes(line)
          THEN IF b.stack = <<>> THEN [b EXCEPT !.ok = FALSE]
               ELSE [ ok |-> b.ok /\ (EndifMarker(line) <=> top = "marker"),
                      stack |-> SubSeq(b.stack, 1, Len(b.stack) - 1) ]
          ELSE b

WellFormed(lines) ==
  LET b == OpenBlocks(lines, Len(lines)) IN b.ok /\ b.stack = <<>>

\* the line after the first n lines lies outside all marker-guarded blocks
OutsideMarker(lines, n) ==
  LET b == OpenBlocks(lines, n)
  IN \A k \in DOMAIN b.stack : b.stack[k] # "marker"

\* C14: for a text whose conditional directives are properly nested, the
\* suppression depth of the guarded-block pass is zero after the last line
\* and zero at every line that lies outside all marker-guarded blocks, also
\* when blocks opened by ifndef on the marker are nested.
C14_DepthZeroOutside ==
  (WellFormed(src) /\ OutsideMarker(src, gi - 1)) => gst.skip_depth = 0

\* the pass has read a marker-guarded ifndef block nested in a
\* marker-guarded ifdef block and ends one below zero
C14_Diverges ==
  /\ src = <<IfdefMarkerLine, IfndefMarkerLine, EndifMarkerLine, EndifMarkerLine>>
  /\ WellFormed(src)
  /\ gi = Len(src) + 1
  /\ gst.skip_depth = -1

\* a text as the sequence of its lexemes that are not blanks, line ends
\* dropped: two texts that differ in whitespace only have the same one
RECURSIVE Squash(_)
Squash(lines) ==
  IF lines = <<>> THEN <<>>
  ELSE SelectSeq(Head(lines), LAMBDA t : ~IsSpace(t)) \o Squash(Tail(lines))

AnyLine(lines, P(_)) == \E i \in DOMAIN lines : P(lines[i])
AnyTok(lines, P(_)) == \E i \in DOMAIN lines : \E k \in DOMAIN lines[i] : P(lines[i][k])

\* the special constructs the round-trip sentence names, each read widely:
\* a conditional-compilation directive of any kind, a quoted path of a
\* verification file with or without its include, the array-pattern lexeme
GuardedBlock(lines) ==
  AnyLine(lines, LAMBDA l : Opens(l) \/ Closes(l) \/ Has(l, "^define"))
VerificationInclude(lines) ==
  AnyTok(lines, LAMBDA t : t \in {QuotedLayers, QuotedVerification})
ArrayPattern(lines) == AnyTok(lines, LAMBDA t : t = "'{")

\* the constructs the sentence does not name
AutomaticQualifier(lines) == AnyTok(lines, LAMBDA t : t = "automatic")
SectionMarker(lines) == AnyTok(lines, LAMBDA t : t \in {FileVerification, FileLayers})
DeclarationAfterHeader(lines) ==
  \E i, j \in DOMAIN lines :
    i < j /\ AlwaysMatch(lines[i]).ok /\ LogicMatch(lines[j]) # None

C15_Diverges ==
  /\ src = <<AutomaticLine>>
  /\ rout.done /\ rout.ok
  /\ Squash(rout.content) = <<"logic", "x", ";">>

(***************************************************************************)
(* Properties of _hoist_logic_from_always()                                *)
(***************************************************************************)
\* The block structure of a text, read without the scanner.
IsHeader(line) == AlwaysMatch(line).ok
Begins(line) == Has(CodePart(line), "begin")
Ends(line) == Has(CodePart(line), "end")

\* the nesting depth after line k of the block whose header is line h: the
\* begin of the header opens the block
RECURSIVE BlockDepth(_, _, _)
BlockDepth(lines, h, k) ==
  IF k = h THEN 1 - (IF Ends(lines[h]) THEN 1 ELSE 0)
  ELSE BlockDepth(lines, h, k - 1)
         + (IF Begins(lines[k]) THEN 1 ELSE 0)
         - (IF Ends(lines[k]) THEN 1 ELSE 0)

\* the line of the matching end of the block of header h, 0 if it has none
MatchingEnd(lines, h) ==
  LET closed == {k \in h..Len(lines) : BlockDepth(lines, h, k) = 0}
  IN IF closed = {} THEN 0 ELSE Min(closed)

\* a declaration-with-initializer line  logic [range] x = e;
IsDeclaration(line) == LogicMatch(line) # None /\ Has(line, ";")

\* the wire line of a declaration line, at the indentation of a header
\* that has none
WireOf(line) == <<"wire">> \o Tail(lstrip_blanks(line))

\* the lines of the indices I, in their order
RECURSIVE Pick(_, _)
Pick(lines, I) ==
  IF I = {} THEN <<>>
  ELSE <<lines[Min(I)]>> \o Pick(lines, I \ {Min(I)})

Occurs(part, whole) ==
  \E p \in 0..(Len(whole) - Len(part)) :
    SubSeq(whole, p + 1, p + Len(part)) = part

\* what the block of header h and matching end c becomes: the wire lines
\* of its declarations in source order, the header, the other lines
BlockImage(lines, h, c) ==
  LET D == {d \in (h + 1)..(c - 1) : IsDeclaration(lines[d])}
      W == Pick([d \in DOMAIN lines |-> WireOf(lines[d])], D)
  IN W \o <<lines[h]>> \o Pick(lines, ((h + 1)..c) \ D)

HoistDone == hst.i > Len(src)

\* C16: for a clocked block closed by its matching end, every
\* declaration-with-initializer line inside it is removed from the block
\* and its wire line is emitted immediately before the header of the
\* block, the wire lines in the source order of the declarations.
C16_HoistedBeforeHeader ==
  HoistDone =>
    \A h \in DOMAIN src :
      LET c == MatchingEnd(src, h)
      IN ( /\ IsHeader(src[h])
           /\ c # 0
           /\ \E d \in (h + 1)..(c - 1) : IsDeclaration(src[d]) )
         => Occurs(BlockImage(src, h, c), hst.out)

\* a closed clocked block with a declaration, after a clocked block
\* written on one line: the declaration is gone and no wire line is there
C16_Diverges ==
  /\ src = <<OneLineAlways, AlwaysLine, DeclLine, EndLine>>
  /\ MatchingEnd(src, 2) = 4
  /\ HoistDone
  /\ hst.out = <<OneLineAlways, AlwaysLine, EndLine>>

(***************************************************************************)
(* Properties of main()                                                    *)
(***************************************************************************)
\* the run got as far as process_files and process_files has returned
BatchDone == mpc \in {"report", "done"} /\ files # <<>>

\* C17: the run ends with a non-zero exit status only when the startup
\* check of the tool fails (the tool exits non-zero, is not found, or the
\* check raises) or the reset of the log or the writing of the report
\* raises; when none of these happens a run with a batch ends with status
\* zero and the report written, whatever happened to the files of the batch.
C17_NonZeroOnlyOnSetupOrReport ==
  /\ exited = "nonzero" =>
       \/ startup \in {"nonzero", "notfound", "error"}
       \/ reset = "raised"
       \/ report = "raised"
  /\ ( /\ mpc = "done"
       /\ startup = "ok"
       /\ reset = "done"
       /\ report # "raised"
       /\ files # <<>> )
     => (exited = "zero" /\ report = "written")

\* a run of two files, both failed and one without an entry in the log,
\* has ended with status zero and the report written
C17_Witness ==
  /\ mpc = "done"
  /\ exited = "zero"
  /\ report = "written"
  /\ Len(files) = 2
  /\ \A fn \in DOMAIN results : results[fn] = <<0, 0>>
  /\ Len(log) = 1

\* C18: after a run whose log was reset at the start, the log holds for
\* every input file of the run an entry with the command issued and both
\* captured output streams.
C18_EntryForEveryFile ==
  (BatchDone /\ reset = "done") =>
    \A i \in DOMAIN files :
      \E k \in DOMAIN log : log[k].fn = files[i] /\ log[k].yosyscmd # None

\* the run of one file has ended and its log holds no entry
C18_Diverges ==
  /\ mpc = "done"
  /\ reset = "done"
  /\ exited = "zero"
  /\ files = <<SvFile>>
  /\ results[SvFile] = <<0, 0>>
  /\ log = <<>>

\* the sum of the counts of a dict
RECURSIVE DictSum(_)
DictSum(d) ==
  IF DOMAIN d = {} THEN 0
  ELSE LET k == CHOOSE x \in DOMAIN d : TRUE
       IN d[k] + DictSum([x \in DOMAIN d \ {k} |-> d[x]])

\* C19: in the summary every failed file, one whose cell count is 0, is
\* counted in exactly one cause category, so the counts of the categories
\* sum to the number of failed files.
C19_CountsSumToFailed ==
  BatchDone => DictSum(error_types) = Cardinality(failed_files(results))

\* a failed file with an entry in the log that fits no pattern is counted
\* in no category
C19_Diverges ==
  /\ mpc = "report"
  /\ files = <<SvFile>>
  /\ failed_files(results) = {SvFile}
  /\ Len(log) = 1
  /\ log[1].fn = SvFile
  /\ log[1].stderr = "ERROR: Module not found"
  /\ error_types = <<>>

(***************************************************************************)
(* Progress of process_files()                                             *)
(***************************************************************************)
\* every tool invocation of worker w ends: it exits or is cut off
InvocationsEnd(w) == []<>(frame[w].pc # "run")

\* C20: under fair scheduling of the workers, if every tool invocation
\* exits or is cut off by the timeout then process_files eventually
\* returns; and a worker blocked on one file prevents no other worker from
\* completing its files: a worker whose own invocations end completes every
\* call it has taken, and every finished future is collected, whatever the
\* other workers do.
C20_ForwardProgress ==
  /\ (\A w \in Workers : InvocationsEnd(w)) => <>(dpc = "returned")
  /\ \A w \in Workers :
       InvocationsEnd(w) =>
         [](frame[w].pc # "idle" => <>(frame[w].pc = "idle"))
  /\ \A i \in 1..MaxFiles :
       []((i \in Tasks /\ future[i].state = "FINISHED") => <>(i \in yielded))

\* the first worker is in the tool invocation of the first file while the
\* result of the second file, run by the other worker, has been collected
C20_Witness ==
  /\ Len(files) = 2
  /\ dpc = "collect"
  /\ frame[1].pc = "run"
  /\ frame[1].task = 1
  /\ yielded = {2}
  /\ files[2] \in DOMAIN results

(***************************************************************************)
(* Temporary files of concurrent calls                                     *)
(***************************************************************************)
\* worker w is inside a call of yosys() that has written its temporary
\* files and has not reached its finally block
Running(w) == frame[w].pc = "run"

\* worker w runs its finally block in this step
Cleans(w) == frame[w].pc # "return" /\ frame'[w].pc = "return"

\* no two calls that run at the same time name the same temporary file, and
\* the files of a running call exist: nothing has removed them
C21_Distinct ==
  \A w \in Workers : \A v \in Workers \ {w} :
    Running(w) /\ Running(v) =>
      /\ OwnTemp(w) \cap OwnTemp(v) = {}
      /\ OwnTemp(w) \subseteq fs

\* the finally block of one call removes no file of another running call
C21_Step ==
  \A w \in Workers : \A v \in Workers \ {w} :
    Cleans(w) /\ Running(v) => (fs \ fs') \cap OwnTemp(v) = {}

\* C21: in every interleaving of the worker processes, two calls of yosys()
\* that run at the same time use different command-script paths and
\* different rewritten-source paths, and the cleanup of one call never
\* removes a temporary file of another running call.
C21_NoSharedTemporaries == []C21_Distinct /\ [][C21_Step]_vars

\* both workers have rewritten the same source file; the first has run its
\* finally block and removed its two files while the second is still in
\* its tool invocation, its two files in place
C21_Witness ==
  /\ Len(files) = 2
  /\ files[1] = files[2]
  /\ ~IsVhdl(files[1])
  /\ frame[1].pc = "return"
  /\ frame[1].preprocessed = "ok"
  /\ frame[1].outcome = "exit"
  /\ OwnTemp(1) \cap fs = {}
  /\ Running(2)
  /\ frame[2].preprocessed = "ok"
  /\ Cardinality(OwnTemp(2)) = 2
  /\ OwnTemp(2) \subseteq fs

(***************************************************************************)
(* VHDL file without an entity name                                        *)
(***************************************************************************)
\* the call in frame c is for a VHDL file in which get_top_entity found no
\* name: the command, built right after the name is found, was never built
NoEntity(c) == c.pc # "idle" /\ IsVhdl(c.fn) /\ c.yosyscmd = None

\* worker w takes a call in this step
Takes(w) == frame[w].pc = "idle" /\ frame'[w].pc # "idle"

\* a call for a file without entity name is at its return statement when
\* the step that took it ends: it returns (0, 0), raises nothing, has run
\* no tool and logged nothing, and has left no new file
C23_Step ==
  \A w \in Workers :
    Takes(w) /\ NoEntity(frame'[w]) =>
      /\ frame'[w].pc = "return"
      /\ frame'[w].ret = <<0, 0>>
      /\ ~frame'[w].raising
      /\ frame'[w].outcome = "none"
      /\ fs' \subseteq fs
      /\ log' = log

\* C23: for a VHDL file in which no entity name is found, yosys(fn)
\* returns (0, 0) without invoking the external tool and without creating
\* a temporary command script.
C23_NoEntityFailsFast ==
  /\ [](\A w \in Workers : NoEntity(frame[w]) => ~Running(w))
  /\ [][C23_Step]_vars

\* the first call, for a VHDL file without entity name, is at its return
\* statement with (0, 0) and the working directory is empty
C23_Witness ==
  /\ NoEntity(frame[1])
  /\ frame[1].task = 1
  /\ frame[1].pc = "return"
  /\ frame[1].ret = <<0, 0>>
  /\ frame[1].outcome = "none"
  /\ fs = {}
  /\ log = <<>>

(***************************************************************************)
(* The guarded-block pass on unbalanced directives                         *)
(***************************************************************************)
\* the lines among the first n that lie outside all marker-guarded blocks
LinesOutside(lines, n) == {k \in 1..n : OutsideMarker(lines, k - 1)}

\* no marker-guarded block of the text is opened by ifndef
OnlyIfdefBlocks(lines) == \A k \in DOMAIN lines : ~IfndefMarker(lines[k])

\* C30: in the guarded-block pass the suppression depth is never negative
\* at any line of any text, also after a closing marker directive that has
\* no opening one, so that in a text whose marker-guarded blocks are all
\* opened by ifdef no line inside such a block is emitted: the pass has
\* emitted at most the lines read outside the marker-guarded blocks.
C30_DepthNeverNegative ==
  /\ gst.skip_depth >= 0
  /\ OnlyIfdefBlocks(src) =>
       Len(gst.cleaned) <= Cardinality(LinesOutside(src, gi - 1))

\* after a closing marker directive without opening the depth was -1; the
\* marker-guarded block that follows only took it back to 0, and the line
\* inside the block has been emitted
C30_Diverges ==
  /\ src = <<EndifMarkerLine, IfdefMarkerLine, PlainLine, EndifMarkerLine>>
  /\ gi = 4
  /\ guard_scan(src, 1).skip_depth = -1
  /\ gst.skip_depth = 0
  /\ gst.cleaned = <<PlainLine>>
  /\ ~OutsideMarker(src, 2)

\* a directive on the marker: it opens or closes a marker-guarded block
MarkerDirective(line) == OpensMarker(line) \/ EndifMarker(line)

\* what the pass is to emit of the first n lines: the lines outside all
\* marker-guarded blocks, the directives on the marker left out
RECURSIVE KeptOutside(_, _)
KeptOutside(lines, n) ==
  IF n = 0 THEN <<>>
  ELSE IF OutsideMarker(lines, n - 1) /\ ~MarkerDirective(lines[n])
       THEN Append(KeptOutside(lines, n - 1), lines[n])
       ELSE KeptOutside(lines, n - 1)

\* the line the pass has read last was dropped
LastDropped == gst.cleaned = guard_scan(src, gi - 2).cleaned

\* C25: in the guarded-block pass a line that is no marker directive is
\* dropped if and only if the suppression depth is above 0 when it is
\* read; in a text with properly nested directives every line between a
\* marker-guarded opening directive and its matching closing directive,
\* nested blocks with other guards included, is dropped, and every line
\* after the matching closing directive is emitted.
C25_DroppedInsideEmittedAfter ==
  /\ (gi > 1 /\ ~MarkerDirective(src[gi - 1])) =>
       (LastDropped <=> guard_scan(src, gi - 2).skip_depth > 0)
  /\ WellFormed(src) => gst.cleaned = KeptOutside(src, gi - 1)

\* in a marker-guarded block a nested marker-guarded ifndef block has been
\* closed; the line after it, still inside the outer block, is emitted
C25_Diverges ==
  /\ src = <<IfdefMarkerLine, IfndefMarkerLine, EndifMarkerLine, PlainLine,
             EndifMarkerLine>>
  /\ WellFormed(src)
  /\ gi = 5
  /\ ~OutsideMarker(src, 3)
  /\ gst.cleaned = <<PlainLine>>

(***************************************************************************)
(* Declarations the hoisting scanner removes                               *)
(***************************************************************************)
\* the line is a wire declaration of the name
IsWireOf(line, name) ==
  \E p \in DOMAIN line :
    /\ line[p] = "wire"
    /\ \E q \in (p + 1)..Len(line) : line[q] = name

\* line d of the text is a declaration with initializer that is missing
\* from the output of the scanner
Removed(d) ==
  /\ LogicMatch(src[d]) # None
  /\ \A p \in DOMAIN hst.out : hst.out[p] # src[d]

\* C29: every declaration with initializer that the hoisting scanner
\* removes from inside a clocked block is emitted as a wire declaration:
\* when the scanner is done, each declaration line missing from the output
\* has a wire line of its name in the output, also when the block is never
\* closed or the statement has no terminator.
C29_RemovedIsHoisted ==
  HoistDone =>
    \A d \in DOMAIN src :
      Removed(d) =>
        \E p \in DOMAIN hst.out :
          IsWireOf(hst.out[p], LogicMatch(src[d]).name)

\* a clocked block that is never closed: the scanner is done, the
\* declaration is gone from the output and no wire line stands for it
C29_Diverges ==
  /\ src = <<AlwaysLine, DeclLine>>
  /\ MatchingEnd(src, 1) = 0
  /\ HoistDone
  /\ Removed(2)
  /\ hst.out = <<AlwaysLine>>

(***************************************************************************)
(* Termination of the scanners                                             *)
(***************************************************************************)
\* the iteration that the hoisting scanner runs next, if its loop has not
\* ended, moves the line index forward and not past the end of the text
C26_Variant ==
  hst.i <= Len(src) =>
    /\ hoist_step(hst, src).i > hst.i
    /\ hoist_step(hst, src).i <= Len(src) + 1

\* an iteration of either loop moves its line index forward, and by no
\* more than the lines that are left
C26_Step ==
  /\ <<gi, gst>>' # <<gi, gst>> => gi' = gi + 1 /\ gi' <= Len(src) + 1
  /\ hst' # hst => hst'.i > hst.i /\ hst'.i <= Len(src) + 1

\* both loops have ended
ScannersDone == gi > Len(src) /\ hst.i > Len(src)

\* C26: for every input text, also with unbalanced begin/end, unbalanced
\* conditional directives, a clocked block that is never closed or a
\* declaration without terminator, the hoisting scanner and the
\* guarded-block scanner terminate, and the line index of each strictly
\* increases on every loop iteration, so that no line is consumed twice:
\* in every state with a loop still running its next iteration moves the
\* index forward, and every step taken has moved one index forward within
\* the text, which leaves each loop at most as many iterations as the
\* text has lines.
C26_ScannersTerminate == []C26_Variant /\ [][C26_Step]_vars

\* both scanners are done on a text with a closing marker directive that
\* has no opening and a clocked block that holds a declaration without
\* terminator and is never closed
C26_Witness ==
  /\ src = <<EndifMarkerLine, AlwaysLine, DeclOpenLine>>
  /\ ScannersDone
  /\ gst.skip_depth = -1
  /\ hst.depth = 1
  /\ MatchingEnd(src, 2) = 0

(***************************************************************************)
(* The verification-section pass as a two-state scanner                    *)
(***************************************************************************)
\* the line holds one of the two path markers
PathMarker(line) == \E i \in DOMAIN line : HasFileMarker(line[i])

\* line k of the text lies in a section: a marker line at or before it has
\* no blank line between itself and line k
InSection(lines, k) ==
  \E m \in 1..k :
    PathMarker(lines[m]) /\ \A j \in m..(k - 1) : ~IsBlank(lines[j])

\* the two states of the scanner
Emitting == ~sst.skip_verification
Suppressing == sst.skip_verification

\* the table of the scanner, for the line it reads in this step
C24_Step ==
  si' = si + 1 =>
    LET line == src[si]
        emitted == sst'.cleaned_lines = Append(sst.cleaned_lines, line)
        dropped == sst'.cleaned_lines = sst.cleaned_lines
    IN /\ (Emitting /\ ~PathMarker(line)) => (emitted /\ Emitting')
       /\ (Emitting /\ PathMarker(line)) => (dropped /\ Suppressing')
       /\ (Suppressing /\ IsBlank(line)) => (dropped /\ Emitting')
       /\ (Suppressing /\ ~IsBlank(line)) => (dropped /\ Suppressing')

\* what the table adds up to: of the lines read, the ones outside the
\* sections have been emitted, and the scanner is suppressing when the
\* line read last lies in a section that no blank line has ended
C24_Sections ==
  /\ sst.cleaned_lines = Pick(src, {k \in 1..(si - 1) : ~InSection(src, k)})
  /\ Suppressing <=>
       (si > 1 /\ InSection(src, si - 1) /\ ~IsBlank(src[si - 1]))

\* C24: the verification-section pass is a two-state scanner.  Emitting: a
\* line without a path marker is emitted; a line with a path marker
\* switches to suppressing and is dropped.  Suppressing: every line is
\* dropped, and the first blank line switches back to emitting, dropped
\* itself; with no blank line after a marker every line up to the end of
\* the text is dropped.
C24_TwoStateScanner == []C24_Sections /\ [][C24_Step]_vars

\* the pass is done with a text of a marker line, a line of its section,
\* the blank line that ends the section and a line after it: only the
\* last line has been emitted
C24_Witness ==
  /\ src = <<SectionMarkLine, PlainLine, EmptyLine, PlainLine>>
  /\ si = 5
  /\ sst.cleaned_lines = <<PlainLine>>
  /\ Emitting
  /\ section_scan(src, 3).cleaned_lines = <<>>

(***************************************************************************)
(* The top module of a SystemVerilog file                                  *)
(***************************************************************************)
\* the lexeme before position n that is no blank, 0 if none
PrevLexeme(text, n) ==
  LET solid == {q \in 1..(n - 1) : ~IsBlankLex(text[q])}
  IN IF solid = {} THEN 0 ELSE Max(solid)

\* lexeme n of the text is the name in a module header: a word after the
\* keyword module and blanks, with a port list or a parameter list after it
IsModuleName(text, n) ==
  LET m == PrevLexeme(text, n)
      a == NextLexeme(text, n + 1)
  IN /\ IsWordRun(text[n])
     /\ m # 0 /\ m < n - 1 /\ text[m] = <<"m", "o", "d", "u", "l", "e">>
     /\ a # 0 /\ text[a] \in {<<"(">>, <<"#">>}

\* the name has one of the five words in it, in any case
VerificationName(name) ==
  \E skip \in skip_words :
    \E p \in 0..(Len(name) - Len(skip)) :
      \A i \in 1..Len(skip) : lower(<<name[p + i]>>) = <<skip[i]>>

\* the module names of the text without the verification names, in file
\* order
Candidates(text) ==
  Pick(text, {n \in DOMAIN text :
                IsModuleName(text, n) /\ ~VerificationName(text[n])})

\* C27: get_top_module considers only module names that contain none of
\* verification, assert, assume, cover, layer in any case; it returns the
\* candidate equal to the base name of the file if there is one, otherwise
\* the last candidate in file order, and the base name if there is no
\* candidate.
C27_TopModule ==
  (ttop.done /\ ~tvhdl /\ ~ttop.raised) =>
    LET c == Candidates(content_of(ttext))
    IN /\ ttop.found
       /\ (\E i \in DOMAIN c : c[i] = tbase) => ttop.name = tbase
       /\ (c # <<>> /\ \A i \in DOMAIN c : c[i] # tbase) =>
            ttop.name = c[Len(c)]
       /\ c = <<>> => ttop.name = tbase
       /\ ttop.name # tbase => ~VerificationName(ttop.name)

\* a file whose last module has cover in its name, written with a capital:
\* the module before it is the top module
C27_Witness ==
  /\ ~tvhdl
  /\ ttext = <<ModulePorts(NameSub), EndmoduleLine, ModuleParams(NameCover)>>
  /\ VerificationName(NameCover)
  /\ ttop = TopName(NameSub)

(***************************************************************************)
(* The top entity of a VHDL file                                           *)
(***************************************************************************)
\* the line declares an entity: the keyword entity, in any case, opens the
\* line and the name and the keyword is follow it
IsEntityDeclaration(line) ==
  LET e == NextLexeme(line, 1)
      n == IF e = 0 THEN 0 ELSE NextLexeme(line, e + 1)
      k == IF n = 0 THEN 0 ELSE NextLexeme(line, n + 1)
  IN /\ k # 0
     /\ lower(line[e]) = <<"e", "n", "t", "i", "t", "y">>
     /\ IsWordRun(line[n])
     /\ lower(line[k]) = <<"i", "s">>

\* the name an entity declaration line declares
DeclaredEntity(line) == line[NextLexeme(line, NextLexeme(line, 1) + 1)]

\* the lines of the text that declare an entity
EntityDeclarations(lines) ==
  {k \in DOMAIN lines : IsEntityDeclaration(lines[k])}

\* C28: for every VHDL file that declares an entity, get_top_entity returns
\* the name of the last entity declared in the file, also when later lines
\* hold the keyword entity where it declares nothing: in the closing line
\* end entity <name>, or in a direct instantiation entity <library>.<name>.
C28_LastDeclaredEntity ==
  (ttop.done /\ tvhdl /\ ~ttop.raised /\ EntityDeclarations(ttext) # {}) =>
    ttop = TopName(DeclaredEntity(ttext[Max(EntityDeclarations(ttext))]))

\* a file that declares one entity and instantiates another one directly
\* in its architecture: the name returned is the library of the
\* instantiation
C28_Diverges ==
  /\ tvhdl
  /\ ttext = <<EntityDecl(NameFPDiv), ArchitectureLine(NameFPDiv),
               Instantiation(NameAux)>>
  /\ EntityDeclarations(ttext) = {1}
  /\ ttop = TopName(<<"w", "o", "r", "k">>)

(***************************************************************************)
(* Interleaved appends to the log                                          *)
(***************************************************************************)
\* the log of a run in which the entries are written one whole entry at a
\* time, and the analysis of it
SerialLog == [w \in Workers |-> Chunk(jobs[w], "whole")]
FailedJobs == {jobs[w].fn : w \in {v \in Workers : jobs[v].failed}}

\* C22: for any interleaving of the appends of the workers to the shared
\* log, the failure-cause breakdown computed from the log is the same as in
\* a run where the entries are written one whole entry at a time.  (The
\* result mapping is built from the values the calls return and does not
\* depend on the log.)
C22_InterleavingIsCosmetic ==
  breakdown.done =>
    breakdown.error_types = analyze_chunks(FailedJobs, SerialLog)

\* the first worker, whose file failed with "Module not found" after a long
\* output, had appended the head of its entry when the second appended its
\* whole entry, a syntax error: both files are counted as syntax errors,
\* where the serial log counts one
C22_Diverges ==
  /\ jobs[1] = [fn |-> SvFile, failed |-> TRUE,
                stderr |-> "ERROR: Module not found", big |-> TRUE]
  /\ jobs[2] = [fn |-> VhdlFile, failed |-> TRUE,
                stderr |-> "ERROR: syntax error", big |-> FALSE]
  /\ chunks = <<Chunk(jobs[1], "head"), Chunk(jobs[2], "whole"),
                Chunk(jobs[1], "tail")>>
  /\ breakdown = Breakdown("other syntax errors" :> 2)
  /\ analyze_chunks(FailedJobs, SerialLog) = ("other syntax errors" :> 1)

====
